---- MODULE Spec2Model ----
(***************************************************************************)
(* A state-machine model of stingray/base.py: the StingrayObject container *)
(* and the StingrayTimeseries record (time axis, named array attributes,   *)
(* lazily derived GTI and mask), together with the operations that filter, *)
(* slice, shift, sort and combine series.                                  *)
(*                                                                         *)
(* Numbers.  Times, GTI bounds and dt are integers.  The code halves dt    *)
(* (dt / 2, dt * 0.5); every dt the model draws is even, so Half(dt) is    *)
(* exact.  The docstring scenario of __add__ (time 5,10,15, dt 5) is       *)
(* modelled with every time quantity doubled.                              *)
(*                                                                         *)
(* Arrays.  A numpy array is a record                                      *)
(*     [st |-> "arr", v |-> values, buf |-> buffer id, ix |-> positions]   *)
(* where buf names the memory buffer the array reads and ix[i] is the      *)
(* position in that buffer of element i: a freshly allocated array has     *)
(* ix = <<1, ..., n>>, a basic slice of it keeps buf and selects from ix.  *)
(* st = "none" is Python's None, st = "unset" an attribute that was never  *)
(* set on the instance.                                                    *)
(***************************************************************************)
EXTENDS Integers, Sequences, FiniteSets, TLC

VARIABLES
    x,        \* the receiver series
    y,        \* the other operand of binary operations
    r,        \* the series returned by the last operation
    op,       \* the last operation: [name, inplace, arg]
    old,      \* [x, y]: the operands as they were when the last operation began
    err,      \* "" or the exception class the last operation raised
    step,     \* number of operations performed
    nextBuf,  \* buffer ids above nextBuf are free
    assigned  \* TRUE iff x.gti was assigned a value other than None

vars == <<x, y, r, op, old, err, step, nextBuf, assigned>>

(***************************************************************************)
(* Bounds of the model.                                                    *)
(***************************************************************************)
MaxLen == 2       \* longest time array drawn in Init
MaxTime == 3      \* time stamps are drawn from 1..MaxTime
MaxSteps == 2     \* operations per behaviour
MaxOthers == 2    \* longest list of series handed to join

AttrNames == {"counts", "counts_err"}

(***************************************************************************)
(* Sequence helpers.                                                       *)
(***************************************************************************)
Range(s) == {s[i] : i \in 1..Len(s)}
Iota(n) == [i \in 1..n |-> i]
Take(v, sel) == [i \in 1..Len(sel) |-> v[sel[i]]]
Max2(a, b) == IF a >= b THEN a ELSE b
Min2(a, b) == IF a <= b THEN a ELSE b
Half(d) == d \div 2
SeqsUpTo(S, n) == UNION {[1..k -> S] : k \in 0..n}

\* a variant that loses the first selected position
MaskIdxTail(m) ==
    LET sel == SelectSeq(Iota(Len(m)), LAMBDA i : m[i])
    IN IF Len(sel) = 0 THEN sel ELSE Tail(sel)

\* positions where a boolean mask is TRUE, ascending (numpy boolean indexing)
MaskIdx(m) == SelectSeq(Iota(Len(m)), LAMBDA i : m[i])

(***************************************************************************)
(* Optional arrays.  A buffer id is <<allocation round, array name>>.      *)
(***************************************************************************)
NoBuf == <<0, "">>
NoneArr == [st |-> "none", v |-> <<>>, buf |-> NoBuf, ix |-> <<>>]
UnsetArr == [st |-> "unset", v |-> <<>>, buf |-> NoBuf, ix |-> <<>>]
\* a newly allocated array (np.asarray of a list, a fancy-indexed copy, a deepcopy, a ufunc result)
NewArr(v, b, name) == [st |-> "arr", v |-> v, buf |-> <<b, name>>, ix |-> Iota(Len(v))]
\* a[start:stop:step], a basic slice: a view on the buffer of a
ViewArr(a, sel) == [st |-> "arr", v |-> Take(a.v, sel), buf |-> a.buf, ix |-> Take(a.ix, sel)]
\* copy.deepcopy of an optional array
DeepArr(a, b, name) == IF a.st = "arr" THEN NewArr(a.v, b, name) ELSE a

NoneGti == [st |-> "none", v |-> <<>>]
SomeGti(g) == [st |-> "arr", v |-> g]

\* an optional scalar: <<>> is "never set", <<v>> is the value v
NoVal == <<>>
Val(v) == <<v>>

(***************************************************************************)
(* GTI algebra (stingray/gti.py).  Interval lists are sequences of pairs   *)
(* <<start, end>>, half-open.                                              *)
(***************************************************************************)
\* check_gtis succeeds: sorted, non-overlapping, every start < end
ValidGti(g) ==
    /\ \A i \in 1..Len(g) : g[i][1] < g[i][2]
    /\ \A i \in 1..(Len(g) - 1) : g[i][2] <= g[i + 1][1]

\* one sample against one interval: a point when dt = 0, the bin
\* [t - dt/2, t + dt/2) when dt > 0
InGti(t, dt, iv) ==
    IF dt > 0
    THEN iv[1] <= t - Half(dt) /\ t + Half(dt) <= iv[2]
    ELSE iv[1] <= t /\ t < iv[2]

create_gti_mask(time, g, dt) ==
    [i \in 1..Len(time) |-> \E k \in 1..Len(g) : InGti(time[i], dt, g[k])]

\* merge intervals that touch, so that the list is the minimal one
RECURSIVE MergeTouching(_)
MergeTouching(g) ==
    IF Len(g) < 2 THEN g
    ELSE IF g[1][2] = g[2][1]
         THEN MergeTouching(<< <<g[1][1], g[2][2]>> >> \o SubSeq(g, 3, Len(g)))
         ELSE <<g[1]>> \o MergeTouching(Tail(g))

RECURSIVE CrossFrom(_, _, _, _)
CrossFrom(a, b, i, j) ==
    IF i > Len(a) \/ j > Len(b) THEN <<>>
    ELSE LET s == Max2(a[i][1], b[j][1])
             e == Min2(a[i][2], b[j][2])
             here == IF s < e THEN << <<s, e>> >> ELSE <<>>
         IN here \o (IF a[i][2] < b[j][2]
                     THEN CrossFrom(a, b, i + 1, j)
                     ELSE CrossFrom(a, b, i, j + 1))

\* intersection of two valid interval lists
cross_two_gtis(a, b) == MergeTouching(CrossFrom(a, b, 1, 1))

(***************************************************************************)
(* The series record.  time is _time, gti is _gti, mask is _mask; attrs    *)
(* holds the dynamically named array attributes; dt, mjdref, tstart and    *)
(* tseg are meta attributes.  dts is dt when dt is a per-sample array, as  *)
(* in a series join returns; no operation is applied to such a series.     *)
(***************************************************************************)
\* the instance type(self)() builds: StingrayTimeseries.__init__ with defaults
EmptySeries ==
    [time |-> NoneArr,
     attrs |-> [a \in AttrNames |-> UnsetArr],
     mask |-> NoneArr,
     gti |-> NoneGti,
     dt |-> 0,
     dts |-> NoneArr,
     mjdref |-> 0,
     tstart |-> NoVal,
     tseg |-> NoVal]

\* StingrayTimeseries(time, array_attrs=aa, gti=g, dt=dt, mjdref=m) with lists as
\* arguments; aa maps every name of AttrNames to a list or to UnsetArr.v (not given)
Construct(time, aa, given, g, dt, m, b) ==
    [EmptySeries EXCEPT
        !.time = IF Len(time) = 0 THEN NoneArr ELSE NewArr(time, b, "time"),
        !.attrs = [a \in AttrNames |->
                      IF a \in given THEN NewArr(aa[a], b, a) ELSE UnsetArr],
        !.gti = g,
        !.dt = dt,
        !.mjdref = m]

\* the constructor raises unless every array attribute has the length of time
ConstructOk(time, aa, given) ==
    \A a \in given : Len(time) > 0 /\ Len(aa[a]) = Len(time)

TimeVals(s) == IF s.time.st = "arr" THEN s.time.v ELSE <<>>

\* StingrayObject.array_attrs
array_attrs(s) ==
    IF s.time.st # "arr" THEN {}
    ELSE {a \in AttrNames : s.attrs[a].st = "arr" /\ Len(s.attrs[a].v) = Len(s.time.v)}

\* StingrayObject.internal_array_attrs: _mask is the only private array field
\* besides _time and _gti, which the method excludes
internal_array_attrs(s) ==
    IF s.time.st # "arr" THEN {}
    ELSE IF s.mask.st = "arr" /\ Len(s.mask.v) # 0 /\ Len(s.mask.v) = Len(s.time.v)
         THEN {"_mask"}
         ELSE {}

_default_operated_attrs(s) == {a \in array_attrs(s) : a # "counts_err"}
_default_error_attrs(s) == {a \in array_attrs(s) : a = "counts_err"}

(***************************************************************************)
(* Python and numpy indexing.                                              *)
(***************************************************************************)
\* the 1-based positions a[start:stop:step] selects from n elements (step > 0);
\* start and stop are optional integers (NoVal is None), negative from the end
SliceLo(n, start) ==
    IF start = NoVal THEN 0
    ELSE IF start[1] < 0 THEN Max2(start[1] + n, 0) ELSE Min2(start[1], n)
SliceHi(n, stop) ==
    IF stop = NoVal THEN n
    ELSE IF stop[1] < 0 THEN Max2(stop[1] + n, 0) ELSE Min2(stop[1], n)
PySlice(n, start, stop, stp) ==
    LET lo == SliceLo(n, start)
        hi == SliceHi(n, stop)
        cnt == IF hi > lo THEN (hi - lo + stp - 1) \div stp ELSE 0
    IN [k \in 1..cnt |-> lo + (k - 1) * stp + 1]

\* numpy.searchsorted(a, key), side "left": the binary search numpy runs
RECURSIVE BinSearch(_, _, _, _)
BinSearch(a, key, lo, hi) ==
    IF lo >= hi THEN lo
    ELSE LET mid == lo + ((hi - lo) \div 2)
         IN IF a[mid + 1] < key
            THEN BinSearch(a, key, mid + 1, hi)
            ELSE BinSearch(a, key, lo, mid)
searchsorted(a, key) == BinSearch(a, key, 0, Len(a))

\* the permutations numpy.argsort(time) may return: quicksort is not stable,
\* so any permutation that orders the values is possible
ArgSorts(t) ==
    {p \in [1..Len(t) -> 1..Len(t)] :
        /\ \A i, j \in 1..Len(t) : i # j => p[i] # p[j]
        /\ \A i \in 1..(Len(t) - 1) : t[p[i]] <= t[p[i + 1]]}
Reversed(p) == [i \in 1..Len(p) |-> p[Len(p) + 1 - i]]

(***************************************************************************)
(* Methods.  A method is an operator that returns                          *)
(*     [self |-> the receiver afterwards, res |-> the returned series,     *)
(*      err |-> "" or the exception raised]                                *)
(* b is the allocation round its new arrays take their buffers from.       *)
(***************************************************************************)
Ret(s, res, e) == [self |-> s, res |-> res, err |-> e]

\* dt[0] and dt[-1] when dt is a per-sample array (field dts), dt otherwise
FirstDt(s) == IF s.dts.st = "arr" THEN s.dts.v[1] ELSE s.dt
LastDt(s) == IF s.dts.st = "arr" THEN s.dts.v[Len(s.dts.v)] ELSE s.dt

\* StingrayTimeseries.gti (getter): derives and stores _gti when it is None
gti_getter(s) ==
    IF s.gti.st = "none" /\ s.time.st = "arr"
    THEN IF Len(s.time.v) = 0
         THEN Ret(s, s, "IndexError")
         ELSE LET g == << <<s.time.v[1] - Half(FirstDt(s)),
                            s.time.v[Len(s.time.v)] + Half(LastDt(s))>> >>
              IN Ret([s EXCEPT !.gti = SomeGti(g)], s, "")
    ELSE Ret(s, s, "")

\* StingrayTimeseries.gti (setter)
gti_setter(s, g) ==
    IF g.st = "none" THEN [s EXCEPT !.gti = NoneGti]
    ELSE [s EXCEPT !.gti = g, !.mask = NoneArr]

\* StingrayTimeseries.mask (getter): computes and stores _mask when it is None
mask_getter(s, b) ==
    IF s.mask.st # "none" THEN Ret(s, s, "")
    ELSE LET g == gti_getter(s)
         IN IF g.err # "" THEN Ret(s, s, g.err)
            ELSE IF s.time.st # "arr" \/ g.self.gti.st # "arr" THEN Ret(g.self, s, "TypeError")
            ELSE IF ~ValidGti(g.self.gti.v) THEN Ret(g.self, s, "InvalidIntervals")
            ELSE Ret([g.self EXCEPT !.mask =
                        NewArr(create_gti_mask(s.time.v, g.self.gti.v, s.dt), b, "_mask")],
                     s, "")

\* StingrayTimeseries.time (setter) with value None
time_setter_none(s) ==
    LET cleared == internal_array_attrs(s) \cup array_attrs(s)
    IN [s EXCEPT !.attrs = [a \in AttrNames |-> IF a \in cleared THEN NoneArr ELSE s.attrs[a]],
                 !.mask = IF "_mask" \in cleared THEN NoneArr ELSE s.mask,
                 !.time = NoneArr]

\* a variant that leaves dt at the default of the class
CopyMetaNoDt(gs, b) ==
    [gti_setter(EmptySeries, gs.gti) EXCEPT
        !.mjdref = gs.mjdref, !.tstart = gs.tstart, !.tseg = gs.tseg,
        !.attrs = [a \in AttrNames |->
                      IF gs.attrs[a].st = "arr" /\ a \notin array_attrs(gs)
                      THEN NewArr(gs.attrs[a].v, b, a)
                      ELSE UnsetArr]]

\* the loops "for attr in self.meta_attrs(): setattr(new, attr, deepcopy(...))":
\* gs is the receiver after its gti getter ran.  An array whose length is not that
\* of time is a meta attribute and is copied; None is not a data attribute.
CopyMeta(gs, b) ==
    [gti_setter(EmptySeries, gs.gti) EXCEPT
        !.dt = gs.dt, !.mjdref = gs.mjdref, !.tstart = gs.tstart, !.tseg = gs.tseg,
        !.attrs = [a \in AttrNames |->
                      IF gs.attrs[a].st = "arr" /\ a \notin array_attrs(gs)
                      THEN NewArr(gs.attrs[a].v, b, a)
                      ELSE UnsetArr]]

\* a variant that silently keeps an attribute left out of filtered_attrs
MaskAttrKept(a, sel, keep, b, name) ==
    IF keep THEN NewArr(Take(a.v, sel), b, name) ELSE a

\* one attribute of all_attrs under apply_mask: filtered or eliminated
MaskAttr(a, sel, keep, b, name) ==
    IF keep THEN NewArr(Take(a.v, sel), b, name) ELSE NoneArr

\* StingrayObject.apply_mask; sel lists the selected positions (a boolean mask, an
\* index array or a slice), filtered is [all |-> TRUE] for None or names the attributes
apply_mask(s, sel, inplace, filtered, b) ==
    LET all_attrs == internal_array_attrs(s) \cup array_attrs(s)
        filt == IF filtered.all THEN all_attrs ELSE filtered.names
        g == IF inplace THEN Ret(s, s, "") ELSE gti_getter(s)
        base == IF inplace THEN s ELSE CopyMeta(g.self, b)
        new == [base EXCEPT
                   !.time = NewArr(Take(s.time.v, sel), b, "time"),
                   !.attrs = [a \in AttrNames |->
                                 IF a \in all_attrs
                                 THEN MaskAttr(s.attrs[a], sel, a \in filt, b, a)
                                 ELSE base.attrs[a]],
                   !.mask = IF "_mask" \in all_attrs
                            THEN MaskAttr(s.mask, sel, "_mask" \in filt, b, "_mask")
                            ELSE base.mask]
    IN IF g.err # "" THEN Ret(s, s, g.err)
       ELSE IF s.time.st # "arr" THEN Ret(g.self, s, "IndexError")
       ELSE Ret(IF inplace THEN new ELSE g.self, new, "")

AllAttrs == [all |-> TRUE, names |-> {}]
Only(names) == [all |-> FALSE, names |-> names]

\* a variant that leaves the gti of the filtered series as it was
apply_gtis_keep(s, new_gti, inplace, b) ==
    LET g == IF new_gti.st = "none" THEN gti_getter(s) ELSE Ret(s, s, "")
        use == IF new_gti.st = "none" THEN g.self.gti ELSE new_gti
    IN IF g.err # "" THEN Ret(s, s, g.err)
       ELSE IF use.st # "arr" THEN Ret(g.self, s, "TypeError")
       ELSE IF ~ValidGti(use.v) THEN Ret(g.self, s, "InvalidIntervals")
       ELSE IF s.time.st # "arr" THEN Ret(g.self, s, "TypeError")
       ELSE apply_mask(g.self, MaskIdx(create_gti_mask(s.time.v, use.v, s.dt)), inplace, AllAttrs, b)

\* StingrayTimeseries.apply_gtis; new_gti is an optional interval list
apply_gtis(s, new_gti, inplace, b) ==
    LET g == IF new_gti.st = "none" THEN gti_getter(s) ELSE Ret(s, s, "")
        use == IF new_gti.st = "none" THEN g.self.gti ELSE new_gti
    IN IF g.err # "" THEN Ret(s, s, g.err)
       ELSE IF use.st # "arr" THEN Ret(g.self, s, "TypeError")
       ELSE IF ~ValidGti(use.v) THEN Ret(g.self, s, "InvalidIntervals")
       ELSE IF s.time.st # "arr" THEN Ret(g.self, s, "TypeError")
       ELSE LET good == create_gti_mask(s.time.v, use.v, s.dt)
                m == apply_mask(g.self, MaskIdx(good), inplace, AllAttrs, b)
            IN IF m.err # "" THEN m
               ELSE IF inplace
                    THEN LET done == gti_setter(m.res, use) IN Ret(done, done, "")
                    ELSE m

\* StingrayTimeseries.sort; p is the permutation argsort returned
sort(s, p, reverse, inplace, b) ==
    apply_mask(s, IF reverse THEN Reversed(p) ELSE p, inplace, AllAttrs, b)

\* StingrayTimeseries._truncate_by_index: slice(start, stop), then the GTI is
\* crossed with the span of the samples kept
TruncatedGti(m) ==
    LET new == m.res
        n == Len(new.time.v)
        iv == <<new.time.v[1] - Half(new.dt), new.time.v[n] + Half(new.dt)>>
    IN IF m.err # "" THEN m
       ELSE IF n = 0 THEN Ret(m.self, new, "IndexError")
       ELSE IF ~ValidGti(m.self.gti.v) \/ ~ValidGti(<<iv>>)
            THEN Ret(m.self, new, "InvalidIntervals")
       ELSE Ret(m.self, gti_setter(new, SomeGti(cross_two_gtis(m.self.gti.v, <<iv>>))), "")

_truncate_by_index(s, start, stop, b) ==
    TruncatedGti(apply_mask(s, PySlice(Len(TimeVals(s)), start, stop, 1), FALSE, AllAttrs, b))

\* StingrayTimeseries._truncate_by_time: start and stop are times
_truncate_by_time(s, start, stop, b) ==
    IF stop # NoVal /\ start > stop[1] THEN Ret(s, s, "ValueError")
    ELSE IF s.time.st # "arr" /\ (start # 0 \/ stop # NoVal) THEN Ret(s, s, "AttributeError")
    ELSE LET i0 == IF start = 0 THEN 0 ELSE searchsorted(s.time.v, start)
             i1 == IF stop = NoVal THEN NoVal ELSE Val(searchsorted(s.time.v, stop[1]))
         IN _truncate_by_index(s, Val(i0), i1, b)

\* the end of StingrayTimeseries.truncate: tstart and tseg from the new gti
TruncatedSpan(t) ==
    LET g == t.res.gti.v
    IN IF t.err # "" THEN t
       ELSE IF Len(g) = 0 THEN Ret(t.self, t.res, "IndexError")
       ELSE Ret(t.self,
                [t.res EXCEPT !.tstart = Val(g[1][1]),
                              !.tseg = Val(g[Len(g)][2] - g[1][1])],
                "")

\* StingrayTimeseries.truncate
truncate(s, start, stop, method, b) ==
    TruncatedSpan(IF method = "index"
                  THEN _truncate_by_index(s, Val(start), stop, b)
                  ELSE _truncate_by_time(s, start, stop, b))

\* StingrayObject.__getitem__: the index is start:stop:stp (an integer i is i:i+1:1).
\* Array attributes and then time are assigned as slices, that is views.
SO_getitem(s, start, stop, stp, b) ==
    LET g == gti_getter(s)
        sel == PySlice(Len(TimeVals(s)), start, stop, stp)
        base == CopyMeta(g.self, b)
        new == [base EXCEPT
                   !.attrs = [a \in AttrNames |->
                                 IF a \in array_attrs(s) THEN ViewArr(s.attrs[a], sel)
                                 ELSE base.attrs[a]],
                   !.time = IF Len(sel) = 0 THEN NoneArr ELSE ViewArr(s.time, sel)]
    IN IF g.err # "" THEN Ret(s, s, g.err)
       ELSE IF s.time.st # "arr" THEN Ret(g.self, s, "TypeError")
       ELSE Ret(g.self, new, "")

\* StingrayTimeseries.__getitem__
TS_getitem(s, start, stop, stp, b) ==
    LET m == SO_getitem(s, start, stop, stp, b)
        new == m.res
        t == new.time.v
        d == Half(s.dt)
        iv == <<t[1] - d, t[Len(t)] + d>>
        win == [i \in 1..Len(t) |-> <<t[i] - Half(new.dt), t[i] + Half(new.dt)>>]
        crossWin == stp > 1 /\ d > 0
        g1 == IF crossWin THEN cross_two_gtis(<<iv>>, win) ELSE <<iv>>
    IN IF m.err # "" THEN m
       ELSE IF new.time.st # "arr" THEN Ret(m.self, new, "TypeError")
       ELSE IF crossWin /\ (~ValidGti(<<iv>>) \/ ~ValidGti(win))
            THEN Ret(m.self, new, "InvalidIntervals")
       ELSE IF ~ValidGti(m.self.gti.v) \/ ~ValidGti(g1)
            THEN Ret(m.self, new, "InvalidIntervals")
       ELSE Ret(m.self, gti_setter(new, SomeGti(cross_two_gtis(m.self.gti.v, g1))), "")

\* copy.deepcopy(self)
DeepCopy(s, b) ==
    [s EXCEPT !.time = DeepArr(s.time, b, "time"),
              !.attrs = [a \in AttrNames |-> DeepArr(s.attrs[a], b, a)],
              !.mask = DeepArr(s.mask, b, "_mask")]

\* a variant that leaves the intervals where they are
ShiftGtiNone(g, delta) == g

\* np.asarray(ts._gti) + time_shift
ShiftGti(g, delta) == [i \in 1..Len(g) |-> <<g[i][1] + delta, g[i][2] + delta>>]

\* StingrayTimeseries.shift; the copy takes round b, the shifted time round b + 1.
\* The time setter stores None for an array of size 0 (_set_times).
shift(s, delta, inplace, b) ==
    LET ts == IF inplace THEN s ELSE DeepCopy(s, b)
        moved == [i \in 1..Len(ts.time.v) |-> ts.time.v[i] + delta]
        new == [ts EXCEPT
                   !.time = IF Len(moved) = 0 THEN NoneArr ELSE NewArr(moved, b + 1, "time"),
                   !.gti = IF ts.gti.st = "arr" THEN SomeGti(ShiftGti(ts.gti.v, delta)) ELSE @]
    IN IF ts.time.st # "arr" THEN Ret(s, ts, "TypeError")
       ELSE Ret(IF inplace THEN new ELSE s, new, "")

SecPerDay == 86400

\* StingrayTimeseries.change_mjdref
change_mjdref(s, new_mjdref, inplace, b) ==
    LET m == shift(s, (s.mjdref - new_mjdref) * SecPerDay, inplace, b)
        ts == [m.res EXCEPT !.mjdref = new_mjdref]
    IN IF m.err # "" THEN m
       ELSE Ret(IF inplace THEN ts ELSE m.self, ts, "")

(***************************************************************************)
(* Arithmetic between two series.                                          *)
(***************************************************************************)
\* sqsum.  An element e of an error attribute is stored as its square e * e, which
\* is exact for the non-negative errors the model draws: sqrt(a^2 + b^2) is then
\* stored as the sum of the two stored squares.
sqsum(a2, b2) == a2 + b2

\* np.add / np.subtract on one pair of elements
Operate(opn, a, b) == IF opn = "add" THEN a + b ELSE a - b

\* np.array_equal on two optional arrays
array_equal(a, b) ==
    IF a.st = "arr" /\ b.st = "arr" THEN a.v = b.v
    ELSE a.st = b.st

\* the exception of operation(getattr(self, attr), getattr(other, attr)), "" if none
OperandErr(a, o) ==
    IF o.st = "unset" THEN "AttributeError"
    ELSE IF o.st = "none" THEN "TypeError"
    ELSE IF Len(o.v) # Len(a.v) THEN "ValueError"
    ELSE ""

\* StingrayObject._operation_with_other_obj with the default operated_attrs and
\* error_attrs.  The result's time is this_time itself, not a copy.
SO_operation_with_other_obj(s, other, opn, inplace, b) ==
    LET operated == _default_operated_attrs(s)
        errattrs == _default_error_attrs(s)
        base0 == IF inplace THEN s ELSE EmptySeries
        \* setattr(ts_new, "time", this_time): the time setter
        base1 == IF s.time.st # "arr"
                 THEN time_setter_none(base0)
                 ELSE [base0 EXCEPT !.time = IF Len(s.time.v) = 0 THEN NoneArr ELSE s.time]
        g == gti_getter(s)
        meta == CopyMeta(g.self, b)
        base2 == [gti_setter(base1, g.self.gti) EXCEPT
                     !.dt = meta.dt, !.mjdref = meta.mjdref,
                     !.tstart = meta.tstart, !.tseg = meta.tseg,
                     !.attrs = [a \in AttrNames |->
                                   IF meta.attrs[a].st = "arr" THEN meta.attrs[a]
                                   ELSE base1.attrs[a]]]
        bad == {a \in operated \cup errattrs : OperandErr(s.attrs[a], other.attrs[a]) # ""}
        new == [base2 EXCEPT
                   !.attrs = [a \in AttrNames |->
                      IF a \in operated
                      THEN NewArr([i \in 1..Len(s.attrs[a].v) |->
                                      Operate(opn, s.attrs[a].v[i], other.attrs[a].v[i])], b, a)
                      ELSE IF a \in errattrs
                      THEN NewArr([i \in 1..Len(s.attrs[a].v) |->
                                      sqsum(s.attrs[a].v[i], other.attrs[a].v[i])], b, a)
                      ELSE base2.attrs[a]]]
    IN IF ~array_equal(s.time, other.time) THEN Ret(s, s, "ValueError")
       ELSE IF g.err # "" THEN Ret(IF inplace THEN base1 ELSE s, s, g.err)
       ELSE IF bad # {}
            THEN Ret(IF inplace THEN base2 ELSE g.self, s,
                     OperandErr(s.attrs[CHOOSE a \in bad : TRUE],
                                other.attrs[CHOOSE a \in bad : TRUE]))
       ELSE Ret(IF inplace THEN new ELSE g.self, new, "")

\* a variant that never sees a difference between the two GTIs
gti_equal_always(a, b) == TRUE

\* np.array_equal(self.gti, other.gti)
gti_equal(a, b) ==
    IF a.st = "arr" /\ b.st = "arr" THEN a.v = b.v ELSE a.st = b.st

\* StingrayTimeseries._operation_with_other_obj.  It returns the receiver and the
\* caller's other operand as the call leaves them: apply_gtis is called with its
\* default inplace=True on self and on other (on the converted copy of other when
\* the mjdref differ).  Rounds: b and b + 1 change_mjdref, b + 2 and b + 3 the two
\* apply_gtis, b + 4 the result.
TSRet(s, other, sv, ov, res, e) ==
    [self |-> sv, other |-> IF s.mjdref # other.mjdref THEN other ELSE ov,
     res |-> res, err |-> e]

\* the return of super()._operation_with_other_obj on the reconciled operands
TS_operation_result(s, other, o3, fin) == TSRet(s, other, fin.self, o3, fin.res, fin.err)

\* after self.apply_gtis(common_gti) (ms) and other.apply_gtis(common_gti) (mo)
TS_operation_filtered(s, other, opn, b, o2, ms, mo) ==
    IF ms.err # "" THEN TSRet(s, other, ms.self, o2, s, ms.err)
    ELSE IF mo.err # "" THEN TSRet(s, other, ms.res, mo.self, s, mo.err)
    ELSE TS_operation_result(s, other, mo.res,
             SO_operation_with_other_obj(ms.res, mo.res, opn, FALSE, b + 4))

\* the comparison of the two GTIs, read as gs and go; o1 is other in self's mjdref
TS_operation_reconcile(s, other, opn, b, o1, gs, go) ==
    LET s1 == gs.self
        o2 == go.self
        differ == ~gti_equal(s1.gti, o2.gti)
        common == SomeGti(cross_two_gtis(s1.gti.v, o2.gti.v))
    IN IF gs.err # "" THEN TSRet(s, other, s, o1, s, gs.err)
       ELSE IF go.err # "" THEN TSRet(s, other, s1, o1, s, go.err)
       ELSE IF ~differ
            THEN TS_operation_result(s, other, o2,
                     SO_operation_with_other_obj(s1, o2, opn, FALSE, b + 4))
       ELSE IF s1.gti.st # "arr" \/ o2.gti.st # "arr"
            THEN TSRet(s, other, s1, o2, s, "TypeError")
       ELSE IF ~ValidGti(s1.gti.v) \/ ~ValidGti(o2.gti.v)
            THEN TSRet(s, other, s1, o2, s, "InvalidIntervals")
       ELSE TS_operation_filtered(s, other, opn, b, o2,
                apply_gtis(s1, common, TRUE, b + 2), apply_gtis(o2, common, TRUE, b + 3))

\* after the conversion c of other to self's mjdref
TS_operation_converted(s, other, opn, b, c) ==
    IF c.err # "" THEN TSRet(s, other, s, other, s, c.err)
    ELSE TS_operation_reconcile(s, other, opn, b, c.res, gti_getter(s), gti_getter(c.res))

TS_operation_with_other_obj(s, other, opn, b) ==
    TS_operation_converted(s, other, opn, b,
        IF s.mjdref # other.mjdref
        THEN change_mjdref(other, s.mjdref, FALSE, b)
        ELSE Ret(other, other, ""))

\* keyword arguments StingrayTimeseries._operation_with_other_obj declares
TSKeywords == {"operated_attrs", "error_attrs", "error_operation"}
\* keyword arguments the callers in StingrayObject pass to self._operation_with_other_obj
AddKeywords == {"operated_attrs", "error_attrs", "error_operation", "inplace"}
OperatorKeywords == {"error_operation"}
InplaceOperatorKeywords == {"error_operation", "inplace"}

\* a call through self._operation_with_other_obj from StingrayObject with the
\* keywords kw: Python raises TypeError for a keyword the override does not declare
CallOperation(s, other, opn, kw, b) ==
    IF ~(kw \subseteq TSKeywords)
    THEN [self |-> s, other |-> other, res |-> s, err |-> "TypeError"]
    ELSE TS_operation_with_other_obj(s, other, opn, b)

(***************************************************************************)
(* Writing one element of an array: every array on the same buffer sees it. *)
(***************************************************************************)
Poke(a, buf, pos, val) ==
    IF a.st = "arr" /\ a.buf = buf
    THEN [a EXCEPT !.v = [j \in 1..Len(a.v) |-> IF a.ix[j] = pos THEN val ELSE a.v[j]]]
    ELSE a

PokeSeries(s, buf, pos, val) ==
    [s EXCEPT !.time = Poke(s.time, buf, pos, val),
              !.attrs = [a \in AttrNames |-> Poke(s.attrs[a], buf, pos, val)]]

ArrayOf(s, name) == IF name = "time" THEN s.time ELSE s.attrs[name]

(***************************************************************************)
(* Inputs.                                                                 *)
(***************************************************************************)
DtVals == {0, 2}
TimeSeqs == SeqsUpTo(1..MaxTime, MaxLen)
GtiGrid == {k \in 0..(MaxTime + 1) : k % 2 = 0}
GtiIntervals == {<<a, b>> : a \in GtiGrid, b \in GtiGrid}
\* the valid interval lists of one or two intervals on the grid
GtiLists == {g \in SeqsUpTo(GtiIntervals, 2) : Len(g) > 0 /\ ValidGti(g)}
GtiArgs == {NoneGti} \cup {SomeGti(g) : g \in GtiLists}
ShiftVals == {-2, 1}
MjdrefVals == {0, 1}
GivenSets == {{"counts"}, AttrNames}
FilterArgs == {AllAttrs, Only({"counts"}), Only({})}
WriteVals == {99}

\* the array attributes handed to the constructor: counts 10, 20, ... scaled by k,
\* counts_err (stored squared) e2 on every sample
AttrInput(n, k, e2) ==
    [a \in AttrNames |-> IF a = "counts" THEN [i \in 1..n |-> 10 * k * i] ELSE [i \in 1..n |-> e2]]

\* the last call: its name and arguments (others and strategy for join, the
\* integer index of x[i], filtered_attrs of apply_mask), the list it
\* returned (split_by_gti), the value of a comparison with == and the column
\* names of the table an export built
Op(name, inplace, sel, g) ==
    [name |-> name, inplace |-> inplace, sel |-> sel, gti |-> g,
     others |-> <<>>, strategy |-> "", index |-> NoVal, filtered |-> AllAttrs,
     list |-> <<>>, equal |-> NoVal, columns |-> <<>>]
NoOp == Op("init", FALSE, <<>>, NoneGti)
Snapshot == [x |-> x, y |-> y, assigned |-> assigned]

\* a series built by the constructor from lists
InputSeries(k, e2, b) ==
    {Construct(t, AttrInput(Len(t), k, e2), given, g, dt, 0, b) :
        t \in TimeSeqs \ {<<>>}, given \in GivenSets, g \in GtiArgs, dt \in DtVals}
    \cup {Construct(<<>>, AttrInput(0, k, e2), {}, g, dt, 0, b) : g \in GtiArgs, dt \in DtVals}

Init ==
    /\ x \in InputSeries(1, 9, 1)
    /\ y = EmptySeries
    /\ r = EmptySeries
    /\ op = NoOp
    /\ old = [x |-> x, y |-> y, assigned |-> [x |-> x.gti.st = "arr", y |-> FALSE]]
    /\ err = ""
    /\ step = 0
    /\ nextBuf = 3
    /\ assigned = [x |-> x.gti.st = "arr", y |-> FALSE]

Ready == err = "" /\ step < MaxSteps

\* the effect of a method call x.m(...) whose outcome is m
Finish(m, o, ax) ==
    /\ x' = m.self
    /\ r' = IF m.err = "" /\ ~o.inplace THEN m.res ELSE EmptySeries
    /\ err' = m.err
    /\ op' = o
    /\ old' = Snapshot
    /\ step' = step + 1
    /\ nextBuf' = nextBuf + 5
    /\ assigned' = [assigned EXCEPT !.x = ax]
    /\ y' = y

ApplyMask ==
    /\ Ready
    /\ \E m \in [1..Len(TimeVals(x)) -> BOOLEAN], inplace \in BOOLEAN, f \in FilterArgs :
          Finish(apply_mask(x, MaskIdx(m), inplace, f, nextBuf),
                 [Op("apply_mask", inplace, MaskIdx(m), NoneGti) EXCEPT !.filtered = f],
                 assigned.x)

ApplyGtis ==
    /\ Ready
    /\ \E g \in GtiArgs, inplace \in BOOLEAN :
          LET m == apply_gtis(x, g, inplace, nextBuf)
          IN Finish(m, Op("apply_gtis", inplace, <<>>, g),
                    assigned.x \/ (inplace /\ m.err = ""))

Sort ==
    /\ Ready
    /\ \E p \in ArgSorts(TimeVals(x)), reverse \in BOOLEAN, inplace \in BOOLEAN :
          Finish(sort(x, p, reverse, inplace, nextBuf),
                 Op(IF reverse THEN "sort_reverse" ELSE "sort", inplace, p, NoneGti), assigned.x)

OptIdx(n) == {NoVal} \cup {Val(i) : i \in 0..n}

Truncate ==
    /\ Ready
    /\ \/ \E start \in 0..Len(TimeVals(x)), stop \in OptIdx(Len(TimeVals(x))) :
             Finish(truncate(x, start, stop, "index", nextBuf),
                    Op("truncate", FALSE, PySlice(Len(TimeVals(x)), Val(start), stop, 1), NoneGti),
                    assigned.x)
       \/ \E start \in 0..MaxTime, stop \in {NoVal} \cup {Val(t) : t \in 1..(MaxTime + 1)} :
             Finish(truncate(x, start, stop, "time", nextBuf),
                    Op("truncate_time", FALSE, <<start>> \o stop, NoneGti), assigned.x)

GetItem ==
    /\ Ready
    /\ \/ \E i \in (0 - Len(TimeVals(x)))..(Len(TimeVals(x)) - 1) :
             Finish(TS_getitem(x, Val(i), Val(i + 1), 1, nextBuf),
                    [Op("getitem", FALSE, PySlice(Len(TimeVals(x)), Val(i), Val(i + 1), 1),
                        NoneGti) EXCEPT !.index = Val(i)],
                    assigned.x)
       \/ \E start \in OptIdx(Len(TimeVals(x))), stop \in OptIdx(Len(TimeVals(x))), stp \in 1..2 :
             Finish(TS_getitem(x, start, stop, stp, nextBuf),
                    Op("getitem", FALSE, PySlice(Len(TimeVals(x)), start, stop, stp), NoneGti),
                    assigned.x)

Shift ==
    /\ Ready
    /\ \E delta \in ShiftVals, inplace \in BOOLEAN :
          Finish(shift(x, delta, inplace, nextBuf), Op("shift", inplace, <<delta>>, NoneGti),
                 assigned.x)

ChangeMjdref ==
    /\ Ready
    /\ \E m \in MjdrefVals, inplace \in BOOLEAN :
          Finish(change_mjdref(x, m, inplace, nextBuf),
                 Op("change_mjdref", inplace, <<m>>, NoneGti), assigned.x)

\* x.time = None
SetTimeNone ==
    /\ Ready
    /\ Finish(Ret(time_setter_none(x), x, ""), Op("set_time", TRUE, <<>>, NoneGti), assigned.x)

\* x.gti = g
SetGti ==
    /\ Ready
    /\ \E g \in GtiArgs :
          Finish(Ret(gti_setter(x, g), x, ""), Op("set_gti", TRUE, <<>>, g), g.st = "arr")

\* x.dt = d
SetDt ==
    /\ Ready
    /\ \E d \in DtVals :
          Finish(Ret([x EXCEPT !.dt = d], x, ""), Op("set_dt", TRUE, <<d>>, NoneGti), assigned.x)

\* a read of x.gti
ReadGti ==
    /\ Ready
    /\ Finish(gti_getter(x), Op("read_gti", TRUE, <<>>, NoneGti), assigned.x)

\* a read of x.mask
ReadMask ==
    /\ Ready
    /\ Finish(mask_getter(x, nextBuf), Op("read_mask", TRUE, <<>>, NoneGti), assigned.x)

\* the program goes on with the returned series as its receiver
Adopt ==
    /\ Ready
    /\ op.name \notin {"init", "adopt", "write"}
    /\ ~op.inplace
    /\ x' = r
    /\ r' = EmptySeries
    /\ op' = Op("adopt", TRUE, <<>>, NoneGti)
    /\ old' = Snapshot
    /\ step' = step + 1
    /\ assigned' = [assigned EXCEPT !.x = r.gti.st = "arr"]
    /\ UNCHANGED <<y, err, nextBuf>>

\* r.<name>[i] = val on the series the last operation returned
WriteResult ==
    /\ Ready
    /\ op.name \notin {"init", "adopt", "write"}
    /\ ~op.inplace
    /\ \E name \in {"time"} \cup AttrNames, val \in WriteVals :
          /\ ArrayOf(r, name).st = "arr"
          /\ \E i \in 1..Len(ArrayOf(r, name).v) :
                LET a == ArrayOf(r, name)
                IN /\ x' = PokeSeries(x, a.buf, a.ix[i], val)
                   /\ y' = PokeSeries(y, a.buf, a.ix[i], val)
                   /\ r' = PokeSeries(r, a.buf, a.ix[i], val)
    /\ op' = Op("write", FALSE, <<>>, NoneGti)
    /\ old' = Snapshot
    /\ step' = step + 1
    /\ UNCHANGED <<err, nextBuf, assigned>>

\* whether the call left s.gti holding something a read of s.gti would not derive
Reassigned(before, after) == after.gti # gti_getter(before).self.gti

\* a binary operation of x with y entered with the keywords kw
Arith(name, opn, kw, inplace) ==
    /\ Ready
    /\ LET m == CallOperation(x, y, opn, kw, nextBuf)
       IN /\ x' = m.self
          /\ y' = m.other
          /\ r' = IF m.err = "" /\ ~inplace THEN m.res ELSE EmptySeries
          /\ err' = m.err
          /\ assigned' = [x |-> assigned.x \/ Reassigned(x, m.self),
                          y |-> assigned.y \/ Reassigned(y, m.other)]
    /\ op' = Op(name, inplace, <<>>, NoneGti)
    /\ old' = Snapshot
    /\ step' = step + 1
    /\ nextBuf' = nextBuf + 5

\* x + y, x - y
Add == Arith("add", "add", OperatorKeywords, FALSE)
Sub == Arith("sub", "sub", OperatorKeywords, FALSE)
\* x.add(y, inplace=...), x.sub(y, inplace=...)
AddMethod == \E inplace \in BOOLEAN : Arith("add_method", "add", AddKeywords, inplace)
SubMethod == \E inplace \in BOOLEAN : Arith("sub_method", "sub", AddKeywords, inplace)
\* x += y, x -= y
IAdd == Arith("iadd", "add", InplaceOperatorKeywords, TRUE)
ISub == Arith("isub", "sub", InplaceOperatorKeywords, TRUE)

(***************************************************************************)
(* Specifications.                                                         *)
(***************************************************************************)
\* one series through its life
Next ==
    \/ ApplyMask \/ ApplyGtis \/ Sort \/ Truncate \/ GetItem \/ Shift \/ ChangeMjdref
    \/ SetTimeNone \/ SetGti \/ SetDt \/ ReadGti \/ ReadMask \/ Adopt \/ WriteResult

Spec == Init /\ [][Next]_vars

\* assignments to gti and reads of mask only
NextMask == SetGti \/ ReadMask

SpecMask == Init /\ [][NextMask]_vars

\* two series and the binary operations between them
IsSorted(t) == \A i \in 1..(Len(t) - 1) : t[i] < t[i + 1]

ArithSeries(k, e2, given, mjdrefs, b) ==
    {Construct(t, AttrInput(Len(t), k, e2), given, g, dt, m, b) :
        t \in {u \in TimeSeqs : Len(u) > 0 /\ IsSorted(u)},
        g \in GtiArgs, dt \in DtVals, m \in mjdrefs}

\* the docstring example of StingrayTimeseries.__add__, every time doubled
DocX == Construct(<<10, 20, 30>>, [a \in AttrNames |-> <<300, 100, 400>>], {"counts"},
                  SomeGti(<< <<0, 40>> >>), 10, 0, 1)
DocY == Construct(<<10, 20, 30>>, [a \in AttrNames |-> <<600, 1200, 800>>], {"counts"},
                  SomeGti(<< <<0, 50>> >>), 10, 0, 2)

InitArith ==
    /\ \/ \E given \in GivenSets :
            /\ x \in ArithSeries(1, 9, given, {0}, 1)
            /\ y \in ArithSeries(2, 16, given, MjdrefVals, 2)
       \/ x = DocX /\ y = DocY
    /\ r = EmptySeries
    /\ op = NoOp
    /\ assigned = [x |-> x.gti.st = "arr", y |-> y.gti.st = "arr"]
    /\ old = [x |-> x, y |-> y, assigned |-> assigned]
    /\ err = ""
    /\ step = 0
    /\ nextBuf = 3

\* (x + y) - y: the series x + y returned becomes the receiver of - y; old keeps
\* the operands as they were before x + y
SubResult ==
    /\ Ready
    /\ op.name = "add"
    /\ LET m == CallOperation(r, y, "sub", OperatorKeywords, nextBuf)
       IN /\ y' = m.other
          /\ r' = IF m.err = "" THEN m.res ELSE EmptySeries
          /\ err' = m.err
          /\ assigned' = [assigned EXCEPT !.y = assigned.y \/ Reassigned(y, m.other)]
    /\ op' = Op("add_sub", FALSE, <<>>, NoneGti)
    /\ step' = step + 1
    /\ nextBuf' = nextBuf + 5
    /\ UNCHANGED <<x, old>>

NextArith == Add \/ Sub \/ AddMethod \/ SubMethod \/ IAdd \/ ISub \/ SubResult

SpecArith == InitArith /\ [][NextArith]_vars

\* two series that went through x.apply_mask(mx, inplace=True) and
\* y.apply_mask(my, inplace=True) before they are added and subtracted
InitArithMasked ==
    /\ \E given \in GivenSets :
          \E sx \in ArithSeries(1, 9, given, {0}, 1), sy \in ArithSeries(2, 16, given, {0}, 2) :
             \E mx \in [1..Len(sx.time.v) -> BOOLEAN], my \in [1..Len(sy.time.v) -> BOOLEAN] :
                /\ x = apply_mask(sx, MaskIdx(mx), TRUE, AllAttrs, 3).self
                /\ y = apply_mask(sy, MaskIdx(my), TRUE, AllAttrs, 4).self
    /\ r = EmptySeries
    /\ op = NoOp
    /\ assigned = [x |-> x.gti.st = "arr", y |-> y.gti.st = "arr"]
    /\ old = [x |-> x, y |-> y, assigned |-> assigned]
    /\ err = ""
    /\ step = 0
    /\ nextBuf = 5

NextArithMasked == Add \/ SubResult

SpecArithMasked == InitArithMasked /\ [][NextArithMasked]_vars

(***************************************************************************)
(* Joining series.  merge_gtis is stingray.gti.merge_gtis, taken from the  *)
(* description of merge in the specification.                              *)
(***************************************************************************)
RECURSIVE SortIntervals(_)
SortIntervals(S) ==
    IF S = {} THEN <<>>
    ELSE LET m == CHOOSE i \in S :
                     \A j \in S : i[1] < j[1] \/ (i[1] = j[1] /\ i[2] <= j[2])
         IN <<m>> \o SortIntervals(S \ {m})

\* a sorted interval list with touching and overlapping intervals merged
RECURSIVE MergeOverlapping(_)
MergeOverlapping(g) ==
    IF Len(g) < 2 THEN g
    ELSE IF g[2][1] <= g[1][2]
         THEN MergeOverlapping(<< <<g[1][1], Max2(g[1][2], g[2][2])>> >> \o SubSeq(g, 3, Len(g)))
         ELSE <<g[1]>> \o MergeOverlapping(Tail(g))

AllIntervals(gs) == UNION {Range(gs[i]) : i \in DOMAIN gs}
GtisOverlapping(a, b) ==
    \E i \in Range(a), j \in Range(b) : Max2(i[1], j[1]) < Min2(i[2], j[2])
AnyPairOverlaps(gs) ==
    \E i \in DOMAIN gs, j \in DOMAIN gs : i < j /\ GtisOverlapping(gs[i], gs[j])

RECURSIVE CrossAll(_)
CrossAll(gs) == IF Len(gs) = 1 THEN gs[1] ELSE cross_two_gtis(gs[1], CrossAll(Tail(gs)))

join_gtis(gs) == MergeOverlapping(SortIntervals(AllIntervals(gs)))

Strategies == {"intersection", "union", "append", "infer", "none"}

\* merge_gtis(gs, strategy) on a non-empty list of interval lists
merge_gtis(gs, strategy) ==
    IF \E i \in DOMAIN gs : ~ValidGti(gs[i]) THEN [g |-> <<>>, err |-> "InvalidIntervals"]
    ELSE IF strategy = "intersection" THEN [g |-> CrossAll(gs), err |-> ""]
    ELSE IF strategy = "union" THEN [g |-> join_gtis(gs), err |-> ""]
    ELSE IF strategy = "infer"
         THEN [g |-> IF AnyPairOverlaps(gs) THEN CrossAll(gs) ELSE join_gtis(gs), err |-> ""]
    ELSE IF strategy = "append"
         THEN IF AnyPairOverlaps(gs) THEN [g |-> <<>>, err |-> "ValueError"]
              ELSE [g |-> SortIntervals(AllIntervals(gs)), err |-> ""]
    ELSE [g |-> << <<SortIntervals(AllIntervals(gs))[1][1],
                     join_gtis(gs)[Len(join_gtis(gs))][2]>> >>, err |-> ""]

\* np.nan in an array of numbers
NaN == -1

RECURSIVE Flatten(_)
Flatten(ss) == IF Len(ss) = 0 THEN <<>> ELSE Head(ss) \o Flatten(Tail(ss))

\* getattr(obj, "time", None) is None or np.size(obj.time) == 0
IsEmptySeries(s) == s.time.st # "arr" \/ Len(s.time.v) = 0

RemoveAt(l, i) == SubSeq(l, 1, i - 1) \o SubSeq(l, i + 1, Len(l))

\* for obj in others: ... others.remove(obj), from the i-th visit on: the list
\* shrinks under the iteration, which goes on at position i + 1 of the shorter
\* list.  remove takes out the first element equal to obj, which is obj or an
\* equal empty series left before it, hence the same list.
RECURSIVE DropEmpty(_, _)
DropEmpty(others, i) ==
    IF i > Len(others) THEN others
    ELSE IF IsEmptySeries(others[i]) THEN DropEmpty(RemoveAt(others, i), i + 1)
    ELSE DropEmpty(others, i + 1)

\* an outcome of _join_timeseries; read tells whether the gti of every joined
\* series was read
JoinRet(s, res, e, read) == [self |-> s, res |-> res, err |-> e, read |-> read]

\* the value of a meta attribute: kept when equal everywhere, else the tuple
\* _safe_concatenate accumulates
JoinMeta(vals) ==
    IF \A i \in DOMAIN vals : vals[i] = vals[1] THEN vals[1]
    ELSE <<vals[1]>> \o SelectSeq(Tail(vals), LAMBDA v : v # vals[1])

JoinedAttrZeros(objs, a) ==
    Flatten([i \in DOMAIN objs |->
                IF objs[i].attrs[a].st = "arr" THEN objs[i].attrs[a].v
                ELSE [k \in 1..Len(TimeVals(objs[i])) |-> 0]])

\* one array attribute of the joined series, before it is put in time order
JoinedAttr(objs, a) ==
    Flatten([i \in DOMAIN objs |->
                IF objs[i].attrs[a].st = "arr" THEN objs[i].attrs[a].v
                ELSE [k \in 1..Len(TimeVals(objs[i])) |-> NaN]])

\* from the concatenation of the time arrays on; m is the merged gti
JoinMerged(s1, objs, m, order, read, b) ==
    LET times == Flatten([i \in DOMAIN objs |-> TimeVals(objs[i])])
        dtset == {objs[i].dt : i \in DOMAIN objs}
        names == UNION {array_attrs(objs[i]) : i \in DOMAIN objs}
        noTime == \E i \in DOMAIN objs : objs[i].time.st # "arr"
        new == [gti_setter(EmptySeries, m.gti) EXCEPT
                   !.time = NewArr(Take(times, order), b, "time"),
                   !.dt = IF Cardinality(dtset) = 1 THEN objs[1].dt ELSE 0,
                   !.dts = IF Cardinality(dtset) = 1 THEN NoneArr
                           ELSE NewArr(Take(Flatten([i \in DOMAIN objs |->
                                           [k \in 1..Len(TimeVals(objs[i])) |-> objs[i].dt]]),
                                       order), b, "dt"),
                   !.attrs = [a \in AttrNames |->
                                 IF a \in names
                                 THEN NewArr(Take(JoinedAttr(objs, a), order), b, a)
                                 ELSE UnsetArr],
                   !.mjdref = s1.mjdref,
                   !.tstart = JoinMeta([i \in DOMAIN objs |-> objs[i].tstart]),
                   !.tseg = JoinMeta([i \in DOMAIN objs |-> objs[i].tseg])]
    IN IF m.err # "" THEN JoinRet(s1, s1, m.err, read)
       \* set([obj.dt, ...]) hashes every dt: a per-sample array is not hashable
       ELSE IF \E i \in DOMAIN objs : objs[i].dts.st = "arr"
            THEN JoinRet(s1, s1, "TypeError", read)
       \* np.zeros_like(None) is zero-dimensional: np.concatenate raises
       ELSE IF noTime /\ Cardinality(dtset) # 1 THEN JoinRet(s1, s1, "ValueError", read)
       ELSE IF noTime /\ names # {} THEN JoinRet(s1, s1, "ValueError", read)
       ELSE JoinRet(s1, new, "", read)

\* the merge of the GTIs; reads are the reads of obj.gti
JoinGtis(s, objs, reads, strategy, order, b) ==
    IF \E i \in DOMAIN reads : reads[i].err # ""
    THEN JoinRet(s, s, reads[CHOOSE i \in DOMAIN reads : reads[i].err # ""].err, TRUE)
    ELSE IF \E i \in DOMAIN reads : reads[i].self.gti.st # "arr"
         THEN JoinRet(reads[1].self, s, "TypeError", TRUE)
    ELSE JoinMerged(reads[1].self, objs,
             LET g == merge_gtis([i \in DOMAIN reads |-> reads[i].self.gti.v], strategy)
             IN [gti |-> SomeGti(g.g), err |-> g.err],
             order, TRUE, b)

\* all_objs = [self] + others, once empty series are dropped and mjdref converted
JoinObjs(s, objs, strategy, order, b) ==
    IF (\A i \in DOMAIN objs : objs[i].gti.st # "arr") \/ strategy = "none"
    THEN JoinMerged(s, objs, [gti |-> NoneGti, err |-> ""], order, FALSE, b)
    ELSE JoinGtis(s, objs, [i \in DOMAIN objs |-> gti_getter(objs[i])], strategy, order, b)

\* conv are the others in the mjdref of self
JoinConverted(s, conv, strategy, order, b) ==
    IF \E i \in DOMAIN conv : conv[i].err # ""
    THEN JoinRet(s, s, conv[CHOOSE i \in DOMAIN conv : conv[i].err # ""].err, FALSE)
    ELSE JoinObjs(s, <<s>> \o [i \in DOMAIN conv |-> conv[i].res], strategy, order, b)

\* others[i] = other.change_mjdref(self.mjdref)
JoinConvert(s, others, b) ==
    [i \in DOMAIN others |->
        IF others[i].mjdref # s.mjdref
        THEN change_mjdref(others[i], s.mjdref, FALSE, b + i)
        ELSE Ret(others[i], others[i], "")]

JoinDropped(s, others, strategy, order, b) ==
    IF Len(others) = 0 THEN JoinRet(s, DeepCopy(s, b), "", FALSE)
    ELSE JoinConverted(s, JoinConvert(s, others, b), strategy, order, b)

\* StingrayTimeseries._join_timeseries; order is what np.argsort returns for
\* the concatenated time
_join_timeseries(s, others, strategy, order, b) ==
    JoinDropped(s, DropEmpty(others, 1), strategy, order, b)

\* the orders of the positions in rest that sort t, ties in any order
RECURSIVE SortOrders(_, _)
SortOrders(t, rest) ==
    IF rest = {} THEN {<<>>}
    ELSE UNION {{<<i>> \o q : q \in SortOrders(t, rest \ {i})} :
                   i \in {j \in rest : \A k \in rest : t[j] <= t[k]}}

\* the concatenated time of all_objs, for the choice of order
JoinedTime(s, others) ==
    LET conv == JoinConvert(s, DropEmpty(others, 1), 0)
    IN TimeVals(s) \o Flatten([i \in DOMAIN conv |-> TimeVals(conv[i].res)])

\* the receiver x with dt = 2, a one-sample series y and the lists others
\* made of y and of empty series
JoinGtiArgs(g) == {NoneGti, SomeGti(g)}

InitJoin ==
    /\ x \in {Construct(t, AttrInput(Len(t), 1, 9), given, g, 2, 0, 1) :
                 t \in TimeSeqs \ {<<>>}, given \in GivenSets,
                 g \in JoinGtiArgs(<< <<0, 4>> >>)}
    /\ y \in {Construct(<<t>>, AttrInput(1, 2, 16), given, g, dt, m, 2) :
                 t \in 1..MaxTime, given \in GivenSets,
                 g \in JoinGtiArgs(<< <<2, 4>> >>), dt \in DtVals, m \in MjdrefVals}
    /\ r = EmptySeries
    /\ op = NoOp
    /\ assigned = [x |-> x.gti.st = "arr", y |-> y.gti.st = "arr"]
    /\ old = [x |-> x, y |-> y, assigned |-> assigned]
    /\ err = ""
    /\ step = 0
    /\ nextBuf = 3

OthersLists == {l \in SeqsUpTo({y, EmptySeries}, MaxOthers) : Len(l) > 0}

\* x.join(others, strategy=strategy) or x.concatenate(others, check_gti), once
JoinCall(name, others, strategy) ==
    /\ err = "" /\ step = 0
    /\ \E order \in SortOrders(JoinedTime(x, others), 1..Len(JoinedTime(x, others))) :
          LET m == _join_timeseries(x, others, strategy, order, nextBuf)
          IN /\ x' = m.self
             /\ y' = IF m.read /\ y.mjdref = x.mjdref /\ y \in Range(others)
                      THEN gti_getter(y).self ELSE y
             /\ r' = IF m.err = "" THEN m.res ELSE EmptySeries
             /\ err' = m.err
             /\ op' = [Op(name, FALSE, order, NoneGti) EXCEPT
                          !.others = others, !.strategy = strategy]
    /\ old' = Snapshot
    /\ step' = step + 1
    /\ nextBuf' = nextBuf + 5
    /\ UNCHANGED assigned

Join == \E others \in OthersLists, strategy \in Strategies : JoinCall("join", others, strategy)

Concatenate ==
    \E others \in OthersLists, check_gti \in BOOLEAN :
        JoinCall("concatenate", others, IF check_gti THEN "append" ELSE "none")

NextJoin == Join \/ Concatenate

SpecJoin == InitJoin /\ [][NextJoin]_vars

\* z = x.join(...) followed by z.join([y], strategy=strategy): the series r the first
\* join returned is the receiver of the second, and old.x keeps it as it was
JoinAgain ==
    /\ err = "" /\ step = 1 /\ op.name = "join"
    /\ \E strategy \in Strategies :
       \E order \in SortOrders(JoinedTime(r, <<y>>), 1..Len(JoinedTime(r, <<y>>))) :
          LET m == _join_timeseries(r, <<y>>, strategy, order, nextBuf)
          IN /\ y' = IF m.read /\ y.mjdref = r.mjdref THEN gti_getter(y).self ELSE y
             /\ r' = IF m.err = "" THEN m.res ELSE EmptySeries
             /\ err' = m.err
             /\ op' = [Op("join_again", FALSE, order, NoneGti) EXCEPT
                          !.others = <<y>>, !.strategy = strategy]
    /\ old' = [Snapshot EXCEPT !.x = r]
    /\ step' = step + 1
    /\ nextBuf' = nextBuf + 5
    /\ UNCHANGED <<x, assigned>>

\* a receiver with dt = 2 and a one-sample series y with either dt
InitJoinAgain ==
    /\ x \in {Construct(t, AttrInput(Len(t), 1, 9), given, g, 2, 0, 1) :
                 t \in {<<1>>, <<1, 3>>, <<3, 1>>}, given \in GivenSets,
                 g \in JoinGtiArgs(<< <<0, 4>> >>)}
    /\ y \in {Construct(<<2>>, AttrInput(1, 2, 16), given, g, dt, 0, 2) :
                 given \in GivenSets, g \in JoinGtiArgs(<< <<0, 4>> >>), dt \in DtVals}
    /\ r = EmptySeries
    /\ op = NoOp
    /\ assigned = [x |-> x.gti.st = "arr", y |-> y.gti.st = "arr"]
    /\ old = [x |-> x, y |-> y, assigned |-> assigned]
    /\ err = ""
    /\ step = 0
    /\ nextBuf = 3

NextJoinAgain == Join \/ JoinAgain

SpecJoinAgain == InitJoinAgain /\ [][NextJoinAgain]_vars

(***************************************************************************)
(* Rebinning.  rebin_data is stingray.utils.rebin_data, taken from the     *)
(* spec: fixed-width bins of dt_new over evenly spaced samples, sums per   *)
(* bin, errors in quadrature.                                              *)
(***************************************************************************)
RECURSIVE SumRange(_, _, _)
SumRange(v, lo, hi) == IF lo > hi THEN 0 ELSE v[lo] + SumRange(v, lo + 1, hi)

\* rebin_data(t, c, dt_new, yerr=e, method="sum") on samples dt apart: f = dt_new / dt
\* samples per bin, the samples left over at the end are cut off; e holds
\* squared errors, <<>> when yerr is None
rebin_data(t, c, e, dt, dt_new) ==
    LET f == dt_new \div dt
        nb == Len(t) \div f
    IN [t |-> [j \in 1..nb |-> t[(j - 1) * f + 1] + Half(dt_new - dt)],
        c |-> [j \in 1..nb |-> SumRange(c, (j - 1) * f + 1, j * f)],
        e |-> [j \in 1..nb |-> IF Len(e) = 0 THEN 0 ELSE SumRange(e, (j - 1) * f + 1, j * f)]]

\* the segments the loop "for g in self.gti" does not skip
RebinSegments(g, dt_new) == SelectSeq(g, LAMBDA iv : iv[2] - iv[1] >= dt_new)

\* self.time[start_ind:end_ind] and the like, for one segment
SegmentSlice(s, v, iv) ==
    SubSeq(v, searchsorted(s.time.v, iv[1]) + 1, searchsorted(s.time.v, iv[2]))

\* bin_time, bin_counts and bin_err of one attribute with values c and errors e
RebinBins(s, c, e, segs, dt_new) ==
    LET bins == [i \in DOMAIN segs |->
                    rebin_data(SegmentSlice(s, s.time.v, segs[i]), SegmentSlice(s, c, segs[i]),
                               IF Len(e) = 0 THEN <<>> ELSE SegmentSlice(s, e, segs[i]),
                               s.dt, dt_new)]
    IN [t |-> Flatten([i \in DOMAIN segs |-> bins[i].t]),
        c |-> Flatten([i \in DOMAIN segs |-> bins[i].c]),
        e |-> Flatten([i \in DOMAIN segs |-> bins[i].e])]

\* the attributes the loop of rebin handles: those not ending in _err
RebinAttrs(s) == (array_attrs(s) \cup internal_array_attrs(s)) \ {"counts_err"}

\* gti_new: every kept segment is appended once per attribute handled
RECURSIVE Repeat(_, _)
Repeat(l, n) == IF n = 0 THEN <<>> ELSE l \o Repeat(l, n - 1)

\* the end of rebin: new_ts.gti = gti_new, then the loop over self.meta_attrs(),
\* gti among them and dt left out, then new_ts.dt = dt_new
RebinMeta(new, gs, gti_new, dt_new) ==
    [gti_setter(gti_setter(new, SomeGti(gti_new)), gs.gti) EXCEPT
        !.dt = dt_new, !.mjdref = gs.mjdref, !.tstart = gs.tstart, !.tseg = gs.tseg]

\* rebin from the loop over the attributes on; gs is self after the read of
\* self.gti, segs the kept segments
RebinLoop(gs, segs, dt_new, b) ==
    LET names == RebinAttrs(gs)
        withErr == gs.attrs["counts_err"].st # "unset"
        first == IF "counts" \in names THEN gs.attrs["counts"].v
                 ELSE [i \in DOMAIN gs.mask.v |-> IF gs.mask.v[i] THEN 1 ELSE 0]
        e == IF "counts" \in names /\ gs.attrs["counts_err"].st = "arr"
             THEN gs.attrs["counts_err"].v ELSE <<>>
        bins == RebinBins(gs, first, e, segs, dt_new)
        new == [EmptySeries EXCEPT
                   !.time = IF Len(bins.t) = 0 THEN NoneArr ELSE NewArr(bins.t, b, "time"),
                   !.attrs = [a \in AttrNames |->
                                 IF "counts" \notin names \/ Len(segs) = 0 THEN UnsetArr
                                 ELSE IF a = "counts" THEN NewArr(bins.c, b, a)
                                 ELSE IF withErr THEN NewArr(bins.e, b, a)
                                 ELSE UnsetArr]]
    IN \* getattr(self, attr + "_err") is None and cannot be sliced
       IF "counts" \in names /\ Len(segs) > 0 /\ gs.attrs["counts_err"].st = "none"
       THEN Ret(gs, gs, "TypeError")
       ELSE IF Len(segs) = 0 \/ names = {} THEN Ret(gs, gs, "ValueError")
       ELSE Ret(gs, RebinMeta(new, gs, Repeat(segs, Cardinality(names)), dt_new), "")

\* rebin once dt_new is known; self.gti is read only inside the loop
RebinTo(s, dt_new, b) ==
    IF dt_new < s.dt THEN Ret(s, s, "ValueError")
    ELSE IF RebinAttrs(s) = {} THEN Ret(s, s, "ValueError")
    ELSE LET g == gti_getter(s)
         IN IF g.err # "" THEN Ret(s, s, g.err)
            ELSE RebinLoop(g.self, RebinSegments(g.self.gti.v, dt_new), dt_new, b)

\* StingrayTimeseries.rebin(dt_new, f); both are optional
rebin(s, dt_new, f, b) ==
    IF f = NoVal /\ dt_new = NoVal THEN Ret(s, s, "ValueError")
    ELSE RebinTo(s, IF f # NoVal THEN f[1] * s.dt ELSE dt_new[1], b)

\* evenly spaced samples, 2 apart
RebinTimes ==
    {[i \in 1..n |-> 2 * (a + i - 1) - 1] : a \in 1..MaxTime, n \in 1..MaxLen}
RebinGtis ==
    {NoneGti, SomeGti(<< <<0, 8>> >>), SomeGti(<< <<0, 2>>, <<2, 8>> >>),
     SomeGti(<< <<0, 4>>, <<4, 8>> >>), SomeGti(<< <<0, 2>>, <<4, 8>> >>)}

InitRebin ==
    /\ x \in {Construct(t, AttrInput(Len(t), 1, 9), given, g, 2, 0, 1) :
                 t \in RebinTimes, given \in {{}} \cup GivenSets, g \in RebinGtis}
    /\ y = EmptySeries
    /\ r = EmptySeries
    /\ op = NoOp
    /\ assigned = [x |-> x.gti.st = "arr", y |-> FALSE]
    /\ old = [x |-> x, y |-> y, assigned |-> assigned]
    /\ err = ""
    /\ step = 0
    /\ nextBuf = 3

Rebin ==
    /\ Ready
    /\ \E dt_new \in {NoVal, Val(1), Val(2), Val(4)}, f \in {NoVal, Val(2)} :
          Finish(rebin(x, dt_new, f, nextBuf), Op("rebin", FALSE, <<dt_new, f>>, NoneGti),
                 assigned.x)

NextRebin == Rebin \/ ReadMask

SpecRebin == InitRebin /\ [][NextRebin]_vars

(***************************************************************************)
(* Splitting by GTI.  gti_border_bins is stingray.gti.gti_border_bins,     *)
(* taken from the spec.                                                    *)
(***************************************************************************)
\* for each interval the first and the one-past-last index (from 0) of the
\* samples inside it
gti_border_bins(g, time, dt) ==
    [k \in DOMAIN g |->
        LET inside == {i \in DOMAIN time : InGti(time[i], dt, g[k])}
        IN IF inside = {} THEN <<0, 0>>
           ELSE <<(CHOOSE i \in inside : \A j \in inside : i <= j) - 1,
                  CHOOSE i \in inside : \A j \in inside : i >= j>>]

\* one turn of the loop of split_by_gti, for the interval iv: the mask is
\* computed without dt, on the time stamps
SplitPiece(gs, iv, b) ==
    LET m == apply_mask(gs, MaskIdx(create_gti_mask(gs.time.v, <<iv>>, 0)), FALSE, AllAttrs, b)
    IN [m EXCEPT !.res = gti_setter(m.res, SomeGti(<<iv>>))]

\* a variant that also skips an interval of exactly min_points samples
SplitPiecesAbove(gs, g, bins, min_points, b) ==
    LET kept == SelectSeq(Iota(Len(g)), LAMBDA i : ~(bins[i][2] - bins[i][1] <= min_points))
    IN [k \in DOMAIN kept |-> SplitPiece(gs, g[kept[k]], b + kept[k])]

\* the pieces of the intervals that are not skipped
SplitPieces(gs, g, bins, min_points, b) ==
    LET kept == SelectSeq(Iota(Len(g)), LAMBDA i : ~(bins[i][2] - bins[i][1] < min_points))
    IN [k \in DOMAIN kept |-> SplitPiece(gs, g[kept[k]], b + kept[k])]

\* the list split_by_gti returns
SplitList(gs, pieces) ==
    IF \E k \in DOMAIN pieces : pieces[k].err # ""
    THEN Ret(gs, <<>>, pieces[CHOOSE k \in DOMAIN pieces : pieces[k].err # ""].err)
    ELSE Ret(gs, [k \in DOMAIN pieces |-> pieces[k].res], "")

\* StingrayTimeseries.split_by_gti; gti is an optional interval list
split_by_gti(s, gti, min_points, b) ==
    LET g == IF gti.st = "none" THEN gti_getter(s) ELSE Ret(s, s, "")
        use == IF gti.st = "none" THEN g.self.gti ELSE gti
    IN IF g.err # "" THEN Ret(s, <<>>, g.err)
       ELSE IF use.st # "arr" \/ s.time.st # "arr" THEN Ret(g.self, <<>>, "TypeError")
       ELSE SplitList(g.self,
                SplitPieces(g.self, use.v, gti_border_bins(use.v, s.time.v, s.dt),
                            min_points, b))

\* evenly spaced samples and GTIs whose borders fall between the samples
InitSplit ==
    /\ x \in {Construct(t, AttrInput(Len(t), 1, 9), given, g, dt, 0, 1) :
                 t \in RebinTimes, given \in GivenSets, g \in RebinGtis, dt \in DtVals}
    /\ y = EmptySeries
    /\ r = EmptySeries
    /\ op = NoOp
    /\ assigned = [x |-> x.gti.st = "arr", y |-> FALSE]
    /\ old = [x |-> x, y |-> y, assigned |-> assigned]
    /\ err = ""
    /\ step = 0
    /\ nextBuf = 3

MinPoints == {1, 2, 3}

SplitByGti ==
    /\ Ready
    /\ \E g \in RebinGtis, min_points \in MinPoints :
          LET m == split_by_gti(x, g, min_points, nextBuf)
          IN /\ x' = m.self
             /\ err' = m.err
             /\ op' = [Op("split_by_gti", FALSE, <<min_points>>, g) EXCEPT !.list = m.res]
    /\ r' = EmptySeries
    /\ old' = Snapshot
    /\ step' = step + 1
    /\ nextBuf' = nextBuf + 5
    /\ UNCHANGED <<y, assigned>>

NextSplit == SplitByGti \/ ReadMask

SpecSplit == InitSplit /\ [][NextSplit]_vars

\* ---- properties ----

\* StingrayTimeseries.n: the number of samples, 0 when time is None
n_samples(s) == IF s.time.st = "arr" THEN Len(s.time.v) ELSE 0

\* what a read of s.gti returns
GtiRead(s) == gti_getter(s).self.gti

\* the series the last operation returned
Returned == IF op.inplace THEN x ELSE r

SameArr(a, b) == a.st = b.st /\ a.v = b.v
SameData(a, b) ==
    /\ SameArr(a.time, b.time)
    /\ \A name \in AttrNames : SameArr(a.attrs[name], b.attrs[name])

ArraysAligned(s) ==
    \A name \in AttrNames : s.attrs[name].st = "arr" => Len(s.attrs[name].v) = n_samples(s)

\* C1: after any sequence of operations, in the receiver and in the returned series,
\* every array attribute is None (or absent) or has as many entries as time has
\* samples, a series whose time is None counting as having no samples.
C1_ArrayAttrsAligned == ArraysAligned(x) /\ ArraysAligned(r)

\* an in-place apply_mask with filtered_attrs=["counts"] dropped a sample: counts
\* was filtered and counts_err was set to None
C1_Witness ==
    /\ op.name = "apply_mask" /\ op.inplace /\ err = ""
    /\ n_samples(x) > 0 /\ n_samples(x) < n_samples(old.x)
    /\ x.attrs["counts"].st = "arr"
    /\ old.x.attrs["counts_err"].st = "arr" /\ x.attrs["counts_err"].st = "none"

\* C2: whenever time is present, the gti a read returns is a valid interval list:
\* sorted, non-overlapping, every start < end.
C2_GtiAlwaysValid ==
    \A s \in {x, r} : n_samples(s) > 0 => ValidGti(GtiRead(s).v)

\* C3: x + y and x - y leave time, the array attributes and the explicitly set gti
\* of both operands as they were.
C3_OperandsUntouched ==
    (op.name \in {"add", "sub"} /\ err = "") =>
        /\ SameData(x, old.x) /\ SameData(y, old.y)
        /\ old.assigned.x => x.gti = old.x.gti
        /\ old.assigned.y => y.gti = old.y.gti

\* C4: no array of a returned series shares its buffer with an array of the
\* receiver: a write into the returned series leaves the receiver's data unchanged.
C4_NoSharedBuffers == op.name = "write" => SameData(x, old.x)

\* C5: apply_gtis(new_gti) returns a series whose gti is new_gti and whose samples
\* are those its mask selects, with inplace=True and with inplace=False.
C5_ApplyGtisSetsGti ==
    (op.name = "apply_gtis" /\ err = "" /\ op.gti.st = "arr") =>
        LET keep == MaskIdx(create_gti_mask(old.x.time.v, op.gti.v, old.x.dt))
        IN /\ Returned.gti.st = "arr" /\ Returned.gti.v = op.gti.v
           /\ TimeVals(Returned) = Take(old.x.time.v, keep)

\* C6: after any sequence of gti assignments and mask reads, the mask a read returns
\* is the one computed from the current time, gti and dt (here: for samples that
\* are bins, dt > 0, and a gti that is a valid interval list).
C6_MaskFollowsGti ==
    (n_samples(x) > 0 /\ x.dt > 0 /\ ValidGti(GtiRead(x).v)) =>
        mask_getter(x, nextBuf).self.mask.v = create_gti_mask(x.time.v, GtiRead(x).v, x.dt)

\* C7: while no gti was explicitly assigned and time is present, a read of gti
\* returns [[time[0] - dt/2, time[-1] + dt/2]] of the current time and dt.
C7_LazyGtiFollowsTime ==
    (~assigned.x /\ n_samples(x) > 0) =>
        GtiRead(x).v = << <<x.time.v[1] - Half(x.dt), x.time.v[Len(x.time.v)] + Half(x.dt)>> >>

\* the two GTIs are valid and overlap
GtisOverlap(a, b) ==
    /\ n_samples(a) > 0 /\ n_samples(b) > 0
    /\ ValidGti(GtiRead(a).v) /\ ValidGti(GtiRead(b).v)
    /\ cross_two_gtis(GtiRead(a).v, GtiRead(b).v) # <<>>

\* C8: x + y and x - y fail whenever x.time and y.time are not identical, whatever
\* the GTIs (here: operands of bins, dt > 0, sharing one mjdref, with GTIs that
\* overlap).
C8_DifferentTimesRejected ==
    (op.name \in {"add", "sub"} /\ old.x.mjdref = old.y.mjdref
        /\ old.x.dt > 0 /\ old.y.dt > 0 /\ GtisOverlap(old.x, old.y)
        /\ ~array_equal(old.x.time, old.y.time)) => err # ""

\* C9: for x and y with identical time, equal mjdref and different, overlapping
\* GTIs, x + y holds exactly the samples the mask of the intersection of the two GTIs selects, its
\* non-error attributes are the sums over those samples, and its gti is the
\* intersection.
C9_AddOnCommonGti ==
    (op.name = "add" /\ err = "" /\ array_equal(old.x.time, old.y.time)
        /\ old.x.mjdref = old.y.mjdref /\ GtiRead(old.x) # GtiRead(old.y)
        /\ GtisOverlap(old.x, old.y)) =>
        LET common == cross_two_gtis(GtiRead(old.x).v, GtiRead(old.y).v)
            keep == MaskIdx(create_gti_mask(old.x.time.v, common, old.x.dt))
        IN /\ TimeVals(r) = Take(old.x.time.v, keep)
           /\ r.attrs["counts"].st = "arr"
           /\ r.attrs["counts"].v =
                 [i \in 1..Len(keep) |->
                     old.x.attrs["counts"].v[keep[i]] + old.y.attrs["counts"].v[keep[i]]]
           /\ r.gti.st = "arr" /\ r.gti.v = common

\* the docstring example (times doubled): counts [900, 1300, 1200], gti [[0, 40]]
C9_Witness ==
    /\ op.name = "add" /\ err = ""
    /\ old.x = DocX /\ old.y = DocY
    /\ TimeVals(r) = <<10, 20, 30>>
    /\ r.attrs["counts"].v = <<900, 1300, 1200>>
    /\ r.gti.v = << <<0, 40>> >>

\* C10: x.add(y), x.sub(y), x += y and x -= y succeed on operands with identical
\* time, mjdref and gti, and give the series x + y, x - y give.
C10_NamedMethodsWork ==
    (op.name \in {"add_method", "sub_method", "iadd", "isub"}
        /\ array_equal(old.x.time, old.y.time) /\ old.x.mjdref = old.y.mjdref
        /\ GtiRead(old.x) = GtiRead(old.y)
        /\ \A name \in AttrNames : old.x.attrs[name].st = old.y.attrs[name].st) =>
        /\ err = ""
        /\ SameData(Returned,
                    TS_operation_with_other_obj(old.x, old.y,
                        IF op.name \in {"add_method", "iadd"} THEN "add" ELSE "sub", 0).res)

\* C11: for x and y with identical time and gti (and one mjdref), (x + y) - y has
\* the values of x in every non-error array attribute, the time of x and the gti
\* of x.  It holds of every pair with samples; a pair emptied by
\* apply_mask(..., inplace=True) keeps a zero-length time array, x + y stores the
\* time None, and - y raises ValueError.
C11_AddThenSub ==
    (op.name = "add_sub" /\ array_equal(old.x.time, old.y.time)
        /\ old.x.mjdref = old.y.mjdref /\ GtiRead(old.x) = GtiRead(old.y)
        /\ old.y.attrs["counts"].st = "arr") =>
        /\ err = ""
        /\ TimeVals(r) = old.x.time.v
        /\ r.attrs["counts"].st = "arr" /\ r.attrs["counts"].v = old.x.attrs["counts"].v
        /\ r.gti = GtiRead(old.x)

\* the series of a list that have samples
NonEmpty(others) == SelectSeq(others, LAMBDA s : ~IsEmptySeries(s))

\* C12: join and concatenate drop every empty series of others, wherever it
\* stands and however many there are: the call ends as the call handed the
\* non-empty series only, which returns a copy of the receiver when none is left.
C12_EmptySeriesDropped ==
    op.name \in {"join", "concatenate"} =>
        LET ref == JoinDropped(old.x, NonEmpty(op.others), op.strategy, op.sel, nextBuf - 5)
        IN /\ err = ref.err
           /\ ref.err = "" => r = ref.res

\* the non-empty series of the last join, the others in the mjdref of the receiver
JoinInputs ==
    LET conv == JoinConvert(old.x, NonEmpty(op.others), 0)
    IN <<old.x>> \o [i \in DOMAIN conv |-> conv[i].res]

\* the names of the array attributes of the inputs
JoinInputNames(inputs) == UNION {array_attrs(inputs[i]) : i \in DOMAIN inputs}
JoinDtDiffers(inputs) == Cardinality({inputs[i].dt : i \in DOMAIN inputs}) > 1

\* sample k of the input s, as a row
InputRow(s, k, names, differs) ==
    [time |-> s.time.v[k],
     attrs |-> [a \in names |-> IF s.attrs[a].st = "arr" THEN s.attrs[a].v[k] ELSE NaN],
     dt |-> IF differs THEN s.dt ELSE 0]

\* sample k of the returned series, as a row
ResultRow(k, names, differs) ==
    [time |-> r.time.v[k],
     attrs |-> [a \in names |-> r.attrs[a].v[k]],
     dt |-> IF differs THEN r.dts.v[k] ELSE 0]

InputSamples(inputs) ==
    {p \in (DOMAIN inputs) \X (1..MaxLen) : p[2] <= n_samples(inputs[p[1]])}

\* the rows of the returned series are the rows of the inputs: every array
\* attribute of an input is an array attribute of the result, as long as time,
\* which has the summed length of the inputs; and each row (time, attribute
\* values with NaN where the source lacks the attribute, dt of the source when
\* dt differs) occurs in the result as often as in the inputs
RowsKept(inputs, names, differs) ==
    /\ n_samples(r) = Cardinality(InputSamples(inputs))
    /\ array_attrs(r) = names
    /\ differs => r.dts.st = "arr" /\ Len(r.dts.v) = n_samples(r)
    /\ ~differs => r.dts.st = "none" /\ r.dt = old.x.dt
    /\ LET res == [k \in 1..n_samples(r) |-> ResultRow(k, names, differs)]
           inp == [p \in InputSamples(inputs) |-> InputRow(inputs[p[1]], p[2], names, differs)]
       IN \A k \in DOMAIN res :
             Cardinality({j \in DOMAIN res : res[j] = res[k]})
                 = Cardinality({p \in DOMAIN inp : inp[p] = res[k]})

JoinRowsKept == RowsKept(JoinInputs, JoinInputNames(JoinInputs), JoinDtDiffers(JoinInputs))

TimeNonDecreasing(s) == \A k \in 1..(n_samples(s) - 1) : s.time.v[k] <= s.time.v[k + 1]

MinStart(gs) ==
    CHOOSE a \in {iv[1] : iv \in AllIntervals(gs)} : \A iv \in AllIntervals(gs) : a <= iv[1]
MaxEnd(gs) ==
    CHOOSE b \in {iv[2] : iv \in AllIntervals(gs)} : \A iv \in AllIntervals(gs) : b >= iv[2]

\* s carries a gti and every sample of s lies in it
AllInGti(s) ==
    /\ s.gti.st = "arr"
    /\ \A k \in 1..n_samples(s) : create_gti_mask(s.time.v, s.gti.v, s.dt)[k]

\* C14: join with strategy "none" (concatenate with check_gti = False) of
\* series of one dt, each with a gti that holds all its samples, returns a
\* series whose gti is the one interval from the smallest start to the largest
\* end of the GTIs of the joined series.
C14_NoneSpansAllGtis ==
    (/\ op.name \in {"join", "concatenate"} /\ op.strategy = "none" /\ err = ""
     /\ NonEmpty(op.others) # <<>>
     /\ ~JoinDtDiffers(JoinInputs)
     /\ \A i \in DOMAIN JoinInputs : AllInGti(JoinInputs[i])) =>
        LET gs == [i \in DOMAIN JoinInputs |-> JoinInputs[i].gti.v]
        IN GtiRead(r) = SomeGti(<< <<MinStart(gs), MaxEnd(gs)>> >>)

\* dt_new of the last call of rebin
RebinDt == IF op.sel[2] # NoVal THEN op.sel[2][1] * old.x.dt ELSE op.sel[1][1]

\* the segment iv of the receiver s is long enough and holds a full bin
Contributes(s, iv, dt_new) ==
    /\ iv[2] - iv[1] >= dt_new
    /\ Len(SegmentSlice(s, s.time.v, iv)) >= dt_new \div s.dt

\* every segment of s that is long enough holds two samples and a full bin
FullSegments(s, g, dt_new) ==
    \A i \in DOMAIN g :
        g[i][2] - g[i][1] >= dt_new =>
            Len(SegmentSlice(s, s.time.v, g[i])) >= 2 /\ Contributes(s, g[i], dt_new)

\* C15: rebin(dt_new), on a series with one non-error array attribute and no
\* internal array, returns a series whose gti is the list, in the original
\* order and each once, of the GTI segments of the receiver of length >= dt_new
\* that contributed a bin, and it fails iff no segment contributed.
C15_RebinGtiContributed ==
    (/\ op.name = "rebin" /\ op.sel # <<NoVal, NoVal>>
     /\ array_attrs(old.x) # {} /\ old.x.mask.st = "none"
     /\ RebinDt >= old.x.dt
     /\ FullSegments(old.x, GtiRead(old.x).v, RebinDt)) =>
        LET g == GtiRead(old.x).v
            contributed == SelectSeq(g, LAMBDA iv : Contributes(old.x, iv, RebinDt))
        IN /\ err # "" <=> contributed = <<>>
           /\ err = "" => r.gti = SomeGti(contributed)

\* the positions of the samples of s that fall inside the interval iv
SamplesInside(s, iv) == SelectSeq(Iota(n_samples(s)), LAMBDA i : InGti(s.time.v[i], s.dt, iv))

\* the piece p holds the samples of s at the positions sel, and nothing else
HoldsSamples(p, s, sel) ==
    /\ p.time.st = "arr" /\ p.time.v = Take(s.time.v, sel)
    /\ array_attrs(p) = array_attrs(s)
    /\ \A a \in array_attrs(s) : p.attrs[a].v = Take(s.attrs[a].v, sel)

\* the list is, in the order of g, one piece for each interval of g with at
\* least min_points samples of s, with that interval as gti and those samples
SplitsAlong(list, s, g, min_points) ==
    LET kept == SelectSeq(Iota(Len(g)),
                          LAMBDA k : Len(SamplesInside(s, g[k])) >= min_points)
    IN /\ Len(list) = Len(kept)
       /\ \A j \in DOMAIN kept :
             /\ list[j].gti = SomeGti(<<g[kept[j]]>>)
             /\ HoldsSamples(list[j], s, SamplesInside(s, g[kept[j]]))
             /\ n_samples(list[j]) >= min_points

C17_IntegerIndex ==
    (/\ op.name = "getitem" /\ op.index # NoVal
     /\ old.x.dt > 0 /\ ValidGti(GtiRead(old.x).v)) =>
        LET n == n_samples(old.x)
            k == IF op.index[1] < 0 THEN n + op.index[1] + 1 ELSE op.index[1] + 1
        IN /\ err = ""
           /\ r.time.st = "arr" /\ r.time.v = <<old.x.time.v[k]>>
           /\ \A a \in array_attrs(old.x) :
                 r.attrs[a].st = "arr" /\ r.attrs[a].v = <<old.x.attrs[a].v[k]>>

\* p lists positions of t, in an order that keeps equal values in their
\* original relative order
KeepsTies(t, p) ==
    \A i, j \in DOMAIN p : (i < j /\ t[p[i]] = t[p[j]]) => p[i] < p[j]

\* C18: sort(reverse=True), even when argsort itself is stable, returns the
\* rows of the receiver permuted so that time is non-increasing, every array
\* attribute permuted as time is, and rows of equal time in their original
\* relative order.
C18_SortStable ==
    (/\ op.name = "sort_reverse" /\ err = ""
     /\ KeepsTies(old.x.time.v, op.sel)) =>
        \E q \in ArgSorts([i \in DOMAIN old.x.time.v |-> 0 - old.x.time.v[i]]) :
            /\ KeepsTies(old.x.time.v, q)
            /\ Returned.time.v = Take(old.x.time.v, q)
            /\ \A a \in array_attrs(old.x) : Returned.attrs[a].v = Take(old.x.attrs[a].v, q)

\* C19: apply_mask(mask, filtered_attrs=F, inplace=False) returns a series in
\* which time and every array attribute in F hold the values of the receiver
\* that mask selects, every array or internal array attribute of the receiver
\* left out of F is None, and every meta attribute (dt, mjdref, tstart, tseg,
\* gti, arrays not as long as time) equals the one of the receiver.
C19_ApplyMaskFiltered ==
    (op.name = "apply_mask" /\ ~op.inplace /\ err = "") =>
        LET s == old.x
            all == array_attrs(s) \cup internal_array_attrs(s)
            F == IF op.filtered.all THEN all ELSE op.filtered.names
        IN /\ r.time.st = "arr" /\ r.time.v = Take(s.time.v, op.sel)
           /\ \A a \in array_attrs(s) :
                 IF a \in F
                 THEN r.attrs[a].st = "arr" /\ r.attrs[a].v = Take(s.attrs[a].v, op.sel)
                 ELSE r.attrs[a].st = "none"
           /\ "_mask" \in all =>
                 IF "_mask" \in F
                 THEN r.mask.st = "arr" /\ r.mask.v = Take(s.mask.v, op.sel)
                 ELSE r.mask.st = "none"
           /\ \A a \in AttrNames \ array_attrs(s) :
                 s.attrs[a].st = "arr" => SameArr(r.attrs[a], s.attrs[a])
           /\ r.dt = s.dt /\ r.mjdref = s.mjdref /\ r.tstart = s.tstart /\ r.tseg = s.tseg
           /\ r.gti = GtiRead(s)

\* apply_mask(mask, filtered_attrs=["counts"]) dropped a sample of a series
\* with counts, counts_err and dt = 2: counts_err of the result is None
C19_Witness ==
    /\ op.name = "apply_mask" /\ ~op.inplace /\ err = ""
    /\ op.filtered = Only({"counts"})
    /\ array_attrs(old.x) = AttrNames /\ old.x.dt = 2
    /\ Len(op.sel) = 1 /\ n_samples(old.x) = 2
    /\ r.attrs["counts"].st = "arr" /\ r.attrs["counts_err"].st = "none"

\* C20: applying a valid GTI with apply_gtis to the series a first apply_gtis
\* with the same arguments returned succeeds and gives a series with the
\* same time, the same array attributes and the same gti.
C20_ApplyGtisIdempotent ==
    (op.name = "apply_gtis" /\ err = "") =>
        LET twice == apply_gtis(Returned, op.gti, op.inplace, nextBuf)
        IN /\ twice.err = ""
           /\ SameData(twice.res, Returned)
           /\ GtiRead(twice.res) = GtiRead(Returned)

\* apply_gtis with a gti given as argument dropped one of two samples
C20_Witness ==
    /\ op.name = "apply_gtis" /\ err = "" /\ op.gti.st = "arr"
    /\ n_samples(old.x) = 2 /\ n_samples(Returned) = 1
    /\ old.x.dt > 0

(***************************************************************************)
(* Attribute classification.  The data fields of a series are the names    *)
(* dir() lists, in dir()'s sorted order, that data_attributes keeps: a     *)
(* property (time, gti, mask, n), a method, and a field holding None (an   *)
(* object-typed array) are left out.  notes ("") and high_precision        *)
(* (False) are set by every constructor call and never changed.            *)
(***************************************************************************)
DirOrder ==
    <<"_gti", "_mask", "_time", "counts", "counts_err", "dt", "high_precision",
      "mjdref", "notes", "tseg", "tstart">>

\* attr is found by dir(s) and its value is not None
HoldsData(s, attr) ==
    CASE attr = "_gti" -> s.gti.st = "arr"
      [] attr = "_mask" -> s.mask.st = "arr"
      [] attr = "_time" -> s.time.st = "arr"
      [] attr \in AttrNames -> s.attrs[attr].st = "arr"
      [] attr = "tseg" -> s.tseg # NoVal
      [] attr = "tstart" -> s.tstart # NoVal
      [] OTHER -> TRUE

\* StingrayObject.data_attributes
data_attributes(s) == SelectSeq(DirOrder, LAMBDA attr : HoldsData(s, attr))

\* attr.startswith("_")
IsPrivate(attr) == attr \in {"_gti", "_mask", "_time"}

\* the list StingrayObject.array_attrs returns: dt is in it when it is a
\* per-sample array of the length of time
array_attrs_list(s) ==
    SelectSeq(data_attributes(s),
              LAMBDA attr : \/ attr \in array_attrs(s)
                            \/ /\ attr = "dt" /\ s.time.st = "arr" /\ s.dts.st = "arr"
                               /\ Len(s.dts.v) = Len(s.time.v))

\* the list StingrayObject.internal_array_attrs returns
internal_array_attrs_list(s) ==
    SelectSeq(data_attributes(s), LAMBDA attr : attr \in internal_array_attrs(s))

\* a variant that keeps the array attributes among the meta attributes
meta_attrs_all(s) ==
    SelectSeq(data_attributes(s), LAMBDA attr : ~IsPrivate(attr)) \o <<"gti">>

\* StingrayObject.meta_attrs, with not_array_attr = ["gti"] appended
meta_attrs(s) ==
    LET arrs == Range(array_attrs_list(s)) \cup {"time"} \cup Range(internal_array_attrs_list(s))
    IN SelectSeq(data_attributes(s), LAMBDA attr : attr \notin arrs /\ ~IsPrivate(attr))
       \o <<"gti">>

(***************************************************************************)
(* Properties of the classification.                                       *)
(***************************************************************************)
\* the four lists array_attrs, [main_array_attr], internal_array_attrs and
\* meta_attrs of s, one after the other
AllListed(s) ==
    array_attrs_list(s) \o <<"time">> \o internal_array_attrs_list(s) \o meta_attrs(s)

\* how many times name stands in the lists
Listed(all, name) == Cardinality({i \in 1..Len(all) : all[i] = name})

\* no name is listed twice, in one category or in two
NoNameTwice(all) == \A i, j \in 1..Len(all) : all[i] = all[j] => i = j

AllFieldsPartitioned(all, fields) ==
    /\ NoNameTwice(all)
    /\ \A name \in (fields \ {"_time"}) \cup {"time"} : Listed(all, name) = 1

PublicFieldsPartitioned(s, all, fields) ==
    /\ NoNameTwice(all)
    /\ Listed(all, "gti") = 1
    /\ \A name \in fields \cup {"time"} :
          Listed(all, name) = IF name \in {"_time", "_gti"} THEN 0
                              ELSE IF name = "_mask" /\ (s.time.st # "arr" \/ s.mask.v = <<>>) THEN 0
                              ELSE 1

\* C23: in every state each data field of a series (the names data_attributes
\* returns, and the main attribute, whose storage is _time) is listed exactly
\* once in array_attrs, [time], internal_array_attrs and meta_attrs together,
\* private fields such as _gti included, and no name is listed twice.
C23_AllFieldsPartitioned ==
    \A s \in {x, r} : AllFieldsPartitioned(AllListed(s), Range(data_attributes(s)))

\* C23 as the code has it: no name is listed twice, every public data field and
\* the main attribute are listed exactly once, and of the private fields only
\* _mask is listed, as an internal array attribute, when it is not empty; _gti
\* is reached through the name gti, which meta_attrs always lists.
C23_PublicFieldsPartitioned ==
    \A s \in {x, r} : PublicFieldsPartitioned(s, AllListed(s), Range(data_attributes(s)))

\* a series with samples and an array attribute whose gti and mask were both
\* materialized by a read of mask
C23_Witness ==
    /\ op.name = "read_mask" /\ err = ""
    /\ x.gti.st = "arr" /\ ~old.assigned.x /\ x.mask.st = "arr"
    /\ n_samples(x) = MaxLen /\ array_attrs(x) = AttrNames

(***************************************************************************)
(* Length.                                                                 *)
(***************************************************************************)
\* StingrayObject.__len__: np.size of the main attribute; np.size(None) is the
\* size of the zero-dimensional array np.asarray(None), which is 1
len(s) == IF s.time.st = "arr" THEN Len(s.time.v) ELSE 1

\* StingrayTimeseries.n
n(s) == IF s.time.st = "arr" THEN Len(s.time.v) ELSE 0

\* C25: len(s) is the number of time samples of s and equals s.n, for the
\* receiver and for a returned series; it is 0 for a series without time.
C25_LenIsSampleCount ==
    \A s \in {x, r} :
        /\ len(s) = n(s)
        /\ len(s) = Len(TimeVals(s))

(***************************************************************************)
(* Equality.                                                               *)
(***************************************************************************)
\* np.array_equal on the values of two number arrays: NaN is equal to nothing
ValuesEqual(a, b) == a = b /\ \A i \in 1..Len(a) : a[i] # NaN

\* the comparison of one meta attribute other than gti (lines 256-264): both
\* series list attr, so both hold a value of the same kind
MetaEqual(s, o, attr) ==
    CASE attr = "dt" -> s.dt = o.dt
      [] attr = "mjdref" -> s.mjdref = o.mjdref
      [] attr = "tseg" -> s.tseg = o.tseg
      [] attr = "tstart" -> s.tstart = o.tstart
      [] attr \in AttrNames -> ValuesEqual(s.attrs[attr].v, o.attrs[attr].v)
      [] OTHER -> TRUE

\* the loop over self.array_attrs() (lines 266-268)
ArrayAttrsEqual(s, o) ==
    \A attr \in Range(array_attrs_list(s)) :
        IF attr = "dt" THEN ValuesEqual(s.dts.v, o.dts.v)
        ELSE ValuesEqual(s.attrs[attr].v, o.attrs[attr].v)


\* the loop over self.internal_array_attrs() (lines 270-272): np.array_equal of
\* an array and None is False
InternalAttrsEqual(s, o) ==
    "_mask" \in internal_array_attrs(s) => (o.mask.st = "arr" /\ o.mask.v = s.mask.v)

\* the outcome of s == o: the two series after the call, the value, the exception
EqRet(s, o, v, e) == [self |-> s, other |-> o, res |-> v, err |-> e]

\* the name tests and the meta attributes that come before gti in meta_attrs
\* (lines 242-264)
EqNamesAndScalars(s, o) ==
    /\ Range(array_attrs_list(s)) = Range(array_attrs_list(o))
    /\ Range(meta_attrs(s)) = Range(meta_attrs(o))
    /\ \A attr \in Range(meta_attrs(s)) \ {"gti"} : MetaEqual(s, o, attr)

\* the rest of __eq__ once gti, the last meta attribute, was read on both series
EqFromGti(s, o, gs, go) ==
    IF gs.err # "" THEN EqRet(s, o, FALSE, gs.err)
    ELSE IF go.err # "" THEN EqRet(gs.self, o, FALSE, go.err)
    ELSE EqRet(gs.self, go.self,
               /\ gs.self.gti = go.self.gti
               /\ ArrayAttrsEqual(gs.self, go.self)
               /\ InternalAttrsEqual(gs.self, go.self),
               "")

\* StingrayObject.__eq__ on two series
eq(s, o) ==
    IF ~EqNamesAndScalars(s, o) THEN EqRet(s, o, FALSE, "")
    ELSE EqFromGti(s, o, gti_getter(s), gti_getter(o))

(***************************************************************************)
(* Tables.  An astropy Table is modelled as its ordered columns and its    *)
(* ordered meta dictionary, each entry a name with its value.              *)
(***************************************************************************)
\* getattr(s, name) for a name that becomes a column
ColumnValue(s, name) ==
    CASE name = "time" -> s.time.v
      [] name = "_mask" -> s.mask.v
      [] name = "dt" -> s.dts.v
      [] OTHER -> s.attrs[name].v

\* getattr(s, key) for a meta attribute, once the gti getter ran
MetaValue(s, key) ==
    CASE key = "dt" -> s.dt
      [] key = "mjdref" -> s.mjdref
      [] key = "tseg" -> s.tseg[1]
      [] key = "tstart" -> s.tstart[1]
      [] key = "gti" -> s.gti.v
      [] key = "notes" -> ""
      [] key = "high_precision" -> FALSE
      [] OTHER -> s.attrs[key].v

\* StingrayObject.get_meta_dict: the meta attributes whose value is not None
get_meta_dict(gs) ==
    LET keys == SelectSeq(meta_attrs(gs), LAMBDA key : key # "gti" \/ gs.gti.st = "arr")
    IN [i \in 1..Len(keys) |-> [name |-> keys[i], v |-> MetaValue(gs, keys[i])]]

\* a variant that puts the main attribute in front of the array attributes
TableColumnsTimeFirst(s) ==
    <<"time">> \o array_attrs_list(s) \o internal_array_attrs_list(s)

\* the keys of the dictionary data of to_astropy_table, in insertion order
TableColumns(s) ==
    array_attrs_list(s) \o <<"time">> \o internal_array_attrs_list(s)

\* StingrayObject.to_astropy_table for a series that has a time array; gs is the
\* series after get_meta_dict read its gti
to_astropy_table(s) ==
    LET names == TableColumns(s)
        g == gti_getter(s)
    IN [self |-> g.self,
        res |-> [cols |-> [i \in 1..Len(names) |->
                              [name |-> names[i], v |-> ColumnValue(s, names[i])]],
                 meta |-> get_meta_dict(g.self)],
        err |-> g.err]

\* setattr(s, name, np.array(column)) in from_astropy_table
SetColumn(s, name, v, b) ==
    CASE name = "time" -> [s EXCEPT !.time = IF Len(v) = 0 THEN NoneArr ELSE NewArr(v, b, "time")]
      [] name = "_mask" -> [s EXCEPT !.mask = NewArr(v, b, "_mask")]
      [] name = "dt" -> [s EXCEPT !.dts = NewArr(v, b, "dt")]
      [] OTHER -> [s EXCEPT !.attrs[name] = NewArr(v, b, name)]

\* setattr(s, key, val) for an entry of the meta dictionary
SetMeta(s, key, v, b) ==
    CASE key = "dt" -> [s EXCEPT !.dt = v]
      [] key = "mjdref" -> [s EXCEPT !.mjdref = v]
      [] key = "tseg" -> [s EXCEPT !.tseg = Val(v)]
      [] key = "tstart" -> [s EXCEPT !.tstart = Val(v)]
      [] key = "gti" -> gti_setter(s, SomeGti(v))
      [] key \in AttrNames -> [s EXCEPT !.attrs[key] = NewArr(v, b, key)]
      [] OTHER -> s

\* the second loop over the columns (lines 345-348): all but the main attribute
RECURSIVE SetColumns(_, _, _, _)
SetColumns(s, cols, i, b) ==
    IF i > Len(cols) THEN s
    ELSE SetColumns(IF cols[i].name = "time" THEN s
                    ELSE SetColumn(s, cols[i].name, cols[i].v, b),
                    cols, i + 1, b)

\* the loop over ts.meta.items() (lines 350-351)
RECURSIVE SetMetas(_, _, _, _)
SetMetas(s, meta, i, b) ==
    IF i > Len(meta) THEN s
    ELSE SetMetas(SetMeta(s, meta[i].name, meta[i].v, b), meta, i + 1, b)

\* the column named like the main attribute
MainColumn(cols) == cols[CHOOSE i \in 1..Len(cols) : cols[i].name = "time"]

\* a variant that loses the meta dictionary
from_astropy_table_columns(ts, b) ==
    IF Len(ts.cols[1].v) = 0 THEN EmptySeries
    ELSE SetColumns(SetColumn(EmptySeries, "time", MainColumn(ts.cols).v, b), ts.cols, 1, b)

\* StingrayObject.from_astropy_table; len(ts) is the number of rows
from_astropy_table(ts, b) ==
    IF Len(ts.cols[1].v) = 0 THEN EmptySeries
    ELSE SetMetas(SetColumns(SetColumn(EmptySeries, "time", MainColumn(ts.cols).v, b),
                             ts.cols, 1, b),
                  ts.meta, 1, b)

(***************************************************************************)
(* Two series under ==, and the round trip through a table.                *)
(***************************************************************************)
EqTimes == {<<1>>, <<2>>, <<1, 2>>, <<1, 3>>}
EqGtis == {NoneGti, SomeGti(<< <<0, 4>> >>)}
EqGiven == {{}} \cup GivenSets

InitEq ==
    /\ \E e2 \in {9, NaN} :
          x \in {Construct(t, AttrInput(Len(t), 1, e2), given, g, dt, 0, 1) :
                    t \in EqTimes \cup {<<2, 1>>}, given \in EqGiven, g \in EqGtis, dt \in DtVals}
    /\ \E k \in {1, 2} :
          y \in {Construct(t, AttrInput(Len(t), k, 9), given, g, dt, 0, 2) :
                    t \in EqTimes, given \in EqGiven, g \in EqGtis, dt \in DtVals}
    /\ r = EmptySeries
    /\ op = NoOp
    /\ assigned = [x |-> x.gti.st = "arr", y |-> y.gti.st = "arr"]
    /\ old = [x |-> x, y |-> y, assigned |-> assigned]
    /\ err = ""
    /\ step = 0
    /\ nextBuf = 3

\* the comparison a == b of the two series, a the receiver when xFirst
Compare(name, xFirst) ==
    /\ Ready
    /\ LET e == IF xFirst THEN eq(x, y) ELSE eq(y, x)
       IN /\ x' = IF xFirst THEN e.self ELSE e.other
          /\ y' = IF xFirst THEN e.other ELSE e.self
          /\ err' = e.err
          /\ op' = [Op(name, TRUE, <<>>, NoneGti) EXCEPT !.equal = Val(e.res)]
    /\ r' = EmptySeries
    /\ old' = Snapshot
    /\ step' = step + 1
    /\ UNCHANGED <<nextBuf, assigned>>

\* x == y
Eq == Compare("eq", TRUE)
\* y == x
EqSwapped == Compare("eq_swapped", FALSE)

\* StingrayTimeseries.from_astropy_table(x.to_astropy_table()) == x; r is the
\* imported series
RoundTrip ==
    /\ Ready
    /\ x.time.st = "arr"
    /\ LET t == to_astropy_table(x)
           e == eq(from_astropy_table(t.res, nextBuf), t.self)
       IN IF t.err # ""
          THEN /\ x' = t.self /\ r' = EmptySeries /\ err' = t.err
               /\ op' = Op("round_trip", FALSE, <<>>, NoneGti)
          ELSE /\ x' = e.other /\ r' = e.self /\ err' = e.err
               /\ op' = [Op("round_trip", FALSE, <<>>, NoneGti) EXCEPT
                            !.equal = Val(e.res),
                            !.columns = [i \in 1..Len(t.res.cols) |-> t.res.cols[i].name]]
    /\ old' = Snapshot
    /\ step' = step + 1
    /\ nextBuf' = nextBuf + 5
    /\ UNCHANGED <<y, assigned>>

NextEq == ReadGti \/ ReadMask \/ Eq \/ EqSwapped \/ RoundTrip

SpecEq == InitEq /\ [][NextEq]_vars

(***************************************************************************)
(* Properties of equality and of the table round trip.                     *)
(***************************************************************************)
\* no array attribute of s holds a NaN
NoNaN(s) == \A a \in array_attrs(s) : \A i \in 1..Len(s.attrs[a].v) : s.attrs[a].v[i] # NaN

\* C21: for a series x with samples, from_astropy_table(to_astropy_table(x)) == x
\* is True, also when gti or mask of x was read before the export.
C21_TableRoundTrip ==
    op.name = "round_trip" => (err = "" /\ op.equal = Val(TRUE))

\* C21 for the series == can find equal to anything: those whose array
\* attributes hold no NaN.
C21_TableRoundTripNoNaN ==
    (op.name = "round_trip" /\ NoNaN(old.x)) => (err = "" /\ op.equal = Val(TRUE))

\* the round trip ran on a series with an array attribute whose mask, and with
\* it the lazily derived gti, had been read before
C21_Witness ==
    /\ op.name = "round_trip" /\ op.equal = Val(TRUE)
    /\ old.x.mask.st = "arr" /\ old.x.gti.st = "arr" /\ ~old.assigned.x
    /\ array_attrs(old.x) = AttrNames /\ NoNaN(old.x) /\ n_samples(old.x) = MaxLen
    /\ r.attrs["counts"].v = old.x.attrs["counts"].v /\ r.time.v = old.x.time.v

\* C22: in the table to_astropy_table builds, time is the first column,
\* whatever array attributes the series has.
C22_TimeFirstColumn ==
    (op.name = "round_trip" /\ err = "") => op.columns[1] = "time"

\* the position of the column time
TimeColumn(cols) == CHOOSE i \in 1..Len(cols) : cols[i] = "time"

\* C22 as the code has it: time is a column of every table, the columns before
\* it are the public array attributes of the series and the columns after it
\* its internal array attributes, so time comes first exactly when the series
\* has no public array attribute.
C22_TimeAfterArrayAttrs ==
    (op.name = "round_trip" /\ err = "") =>
        /\ \E i \in 1..Len(op.columns) : op.columns[i] = "time"
        /\ {op.columns[i] : i \in 1..(TimeColumn(op.columns) - 1)} = array_attrs(old.x)
        /\ \A i \in (TimeColumn(op.columns) + 1)..Len(op.columns) : IsPrivate(op.columns[i])
        /\ (op.columns[1] = "time") = (array_attrs(old.x) = {})

\* a table was built from a series with two array attributes and a mask
C22_Witness ==
    /\ op.name = "round_trip" /\ err = ""
    /\ op.columns = <<"counts", "counts_err", "time", "_mask">>

\* the series as it was before any read of its mask or gti: no cached mask, and
\* no gti unless one was assigned
Pristine(s, wasAssigned) ==
    [s EXCEPT !.mask = NoneArr, !.gti = IF wasAssigned THEN @ ELSE NoneGti]

\* C28: x == y and y == x give the same value, and the value of a comparison is
\* the one it has when neither mask nor gti of the two series was read before.
C28_EqSymmetricCacheFree ==
    (op.name \in {"eq", "eq_swapped"} /\ err = "") =>
        LET px == Pristine(old.x, old.assigned.x)
            py == Pristine(old.y, old.assigned.y)
        IN /\ eq(old.x, old.y).res = eq(old.y, old.x).res
           /\ op.equal = Val(IF op.name = "eq" THEN eq(px, py).res ELSE eq(py, px).res)

\* C29: when a comparison of two series with == gives True, their time arrays
\* are the same, element for element.
C29_EqualHaveSameTime ==
    (op.name \in {"eq", "eq_swapped"} /\ err = "" /\ op.equal = Val(TRUE)) =>
        (old.x.time.st = old.y.time.st /\ old.x.time.v = old.y.time.v)

(***************************************************************************)
(* Properties of shift.                                                    *)
(***************************************************************************)
\* the gti a read derives from the time array t of a series with spacing dt
DerivedGti(t, dt) == SomeGti(<< <<t[1] - Half(dt), t[Len(t)] + Half(dt)>> >>)

\* C24: shift(delta) gives a series whose time is the receiver's time plus
\* delta; a gti the receiver holds, assigned or materialized by a read, comes out
\* moved by delta; a gti never set nor read stays unmaterialized on the receiver
\* and on the result, and a read on the result derives it from the shifted time.
C24_ShiftMovesTimeAndGti ==
    (op.name = "shift" /\ err = "") =>
        LET s == old.x
            res == IF op.inplace THEN x ELSE r
            delta == op.sel[1]
            moved == [i \in 1..Len(s.time.v) |-> s.time.v[i] + delta]
        IN /\ TimeVals(res) = moved
           /\ s.gti.st = "arr" =>
                 /\ res.gti.st = "arr" /\ Len(res.gti.v) = Len(s.gti.v)
                 /\ \A i \in 1..Len(s.gti.v) :
                       res.gti.v[i] = <<s.gti.v[i][1] + delta, s.gti.v[i][2] + delta>>
           /\ s.gti.st = "none" =>
                 /\ x.gti.st = "none" /\ res.gti.st = "none"
                 /\ Len(moved) > 0 => gti_getter(res).self.gti = DerivedGti(moved, s.dt)

\* a series whose gti was materialized by a read was shifted into a new series
C24_Witness ==
    /\ op.name = "shift" /\ err = "" /\ ~op.inplace
    /\ old.x.gti.st = "arr" /\ ~old.assigned.x
    /\ n_samples(old.x) = MaxLen /\ old.x.dt > 0
    /\ r.gti.v[1][1] = old.x.gti.v[1][1] + op.sel[1] /\ r.gti # old.x.gti

(***************************************************************************)
(* Properties of truncate.                                                 *)
(***************************************************************************)
\* C26: on a series with sorted time, truncate(start=a, stop=b, method="time")
\* with a <= b, when it returns, returns the samples with a <= t < b (with
\* a <= t when stop is left out) and no other, for every a, 0 included.
C26_TruncateByTime ==
    (op.name = "truncate_time" /\ err = "" /\ TimeNonDecreasing(old.x)) =>
        LET a == op.sel[1]
            inside(t) == a <= t /\ (Len(op.sel) = 2 => t < op.sel[2])
        IN TimeVals(r) = SelectSeq(TimeVals(old.x), inside)

(***************************************************************************)
(* Properties of the GTI reconciliation of arithmetic.                     *)
(***************************************************************************)
ReconcileFuel == 3    \* nested calls of _operation_with_other_obj followed

\* the number of times _operation_with_other_obj, called on s and o (o in the
\* mjdref of s), goes through its branch for different GTIs (lines 1481-1497),
\* the nested calls included, followed for at most fuel calls
RECURSIVE ReconcileDepth(_, _, _)
ReconcileDepth(s, o, fuel) ==
    LET gs == gti_getter(s)
        go == gti_getter(o)
        common == SomeGti(cross_two_gtis(gs.self.gti.v, go.self.gti.v))
        ms == apply_gtis(gs.self, common, TRUE, 90)
        mo == apply_gtis(go.self, common, TRUE, 91)
    IN IF gs.err # "" \/ go.err # "" THEN 0
       ELSE IF gti_equal(gs.self.gti, go.self.gti) THEN 0
       ELSE IF gs.self.gti.st # "arr" \/ go.self.gti.st # "arr" THEN 1
       ELSE IF ~ValidGti(gs.self.gti.v) \/ ~ValidGti(go.self.gti.v) THEN 1
       ELSE IF ms.err # "" \/ mo.err # "" \/ fuel = 0 THEN 1
       ELSE 1 + ReconcileDepth(ms.res, mo.res, fuel - 1)

\* other as _operation_with_other_obj uses it: moved to the mjdref of s
InMjdrefOf(s, other) ==
    IF s.mjdref # other.mjdref THEN change_mjdref(other, s.mjdref, FALSE, 92).res ELSE other

ArithNames == {"add", "sub", "add_method", "sub_method", "iadd", "isub"}

\* C27: an operation between two series goes through the GTI reconciliation at
\* most once: when the GTIs differ and the operation returns, the receiver (and
\* other, when it needed no change of mjdref) holds the common GTI afterwards,
\* and the nested call finds the two GTIs equal.
C27_ReconcilesOnce ==
    (op.name \in ArithNames /\ old.x.time.st = "arr" /\ old.y.time.st = "arr") =>
        /\ ReconcileDepth(old.x, InMjdrefOf(old.x, old.y), ReconcileFuel) <= 1
        /\ (err = "" /\ GtiRead(old.x) # GtiRead(InMjdrefOf(old.x, old.y))) =>
              /\ x.gti.st = "arr"
              /\ x.gti.v = cross_two_gtis(GtiRead(old.x).v, GtiRead(InMjdrefOf(old.x, old.y)).v)
              /\ old.x.mjdref = old.y.mjdref => gti_equal(x.gti, y.gti)

\* x + y went through the reconciliation and returned
C27_Witness ==
    /\ op.name = "add" /\ err = ""
    /\ GtiRead(old.x) # GtiRead(old.y) /\ old.x.mjdref = old.y.mjdref
    /\ ReconcileDepth(old.x, old.y, ReconcileFuel) = 1
    /\ x.gti = y.gti /\ x.gti # GtiRead(old.x) /\ n_samples(r) > 0

\* C30: a series returned by join, also one whose dt became a per-sample array, can be
\* joined again with a non-empty series without failure; stated for strategy "none",
\* where no merge of good time intervals can refuse the inputs
C30_JoinClosed ==
    (op.name = "join_again" /\ op.strategy = "none" /\ ~IsEmptySeries(y)) => err = ""

\* the same for a first result whose dt stayed a scalar
C30_JoinClosedScalarDt ==
    (op.name = "join_again" /\ op.strategy = "none" /\ old.x.dts.st # "arr") => err = ""

============================================================================
